---- MODULE Spec2Model ----
(***************************************************************************)
(* Model of the multi-agent review orchestration of tech-writers-toolkit:  *)
(*   BaseReviewAgent.execute_review      (src/agents/base_agent.py)        *)
(*   AgentManager.start_review           (src/ai/agent_manager.py)         *)
(*   AgentManager._create_review_summary (src/ai/agent_manager.py)         *)
(*   DatabaseManager.add_agent_finding   (src/storage/models.py)           *)
(*                                                                         *)
(* start_review is split at the points where it calls a collaborator that  *)
(* may fail (the agent's review(), the store's insert); every step is      *)
(* forced by the program counter pc.  Confidences are in tenths            *)
(* (0.6 -> 6).                                                             *)
(***************************************************************************)
EXTENDS Integers, Sequences, FiniteSets, TLC

\* ------------------------------------------------------------- bounds
\* longest explicit agents_to_use list
MaxRequest == 2
\* findings returned by all review() calls of one start_review, in total
MaxFindings == 2

\* ---------------------------------------------------------- vocabulary
\* AgentFinding.id before the store assigned one (None)
NoId == 0
\* ProcessedContent.session_id when it is not set (None; 0 is falsy too)
NoSession == 0
\* the session the reviewed document belongs to
ThisSession == 1
\* another, earlier session with a row in the store
OtherSession == 2

AgentNames == {"technical", "diagram", "formatting"}
Severities == {"error", "warning", "info"}
\* confidences a review() may assign: below both registered thresholds, and
\* equal to the higher one
Confidences == {5, 7}

\* agent_name -> class constructed by _initialize_agents / its threshold
ConfidenceThreshold(name) ==
    CASE name = "technical" -> 6
      [] name = "diagram" -> 7
      [] OTHER -> 8

\* BaseReviewAgent.role, written into AgentFinding.agent_name by create_finding
Role(name) ==
    CASE name = "technical" -> "Technical Accuracy Reviewer"
      [] name = "diagram" -> "Diagram and Visual Reviewer"
      [] OTHER -> "Formatting and Standards Reviewer"

\* The registries _initialize_agents can leave behind: the constructors run
\* in order technical, diagram; the first that raises ends the initialisation.
Registries == { <<>>, <<"technical">>, <<"technical", "diagram">> }

SeqsUpTo(S, n) == UNION { [1..k -> S] : k \in 0..n }

Range(s) == { s[i] : i \in 1..Len(s) }

\* `None` for the optional agents_to_use argument
DefaultRequest == <<"*default*">>

\* ------------------------------------------------------ python dict model
\* A dict is a sequence of [key, val] in insertion order.
DictHas(d, k) == \E i \in 1..Len(d) : d[i].key = k

DictGet(d, k) == d[CHOOSE i \in 1..Len(d) : d[i].key = k].val

DictSet(d, k, v) ==
    IF DictHas(d, k)
    THEN [i \in 1..Len(d) |-> IF d[i].key = k THEN [key |-> k, val |-> v] ELSE d[i]]
    ELSE Append(d, [key |-> k, val |-> v])

\* ------------------------------------------------------------- state
VARIABLES
    agents,            \* AgentManager.agents: registered names, insertion order
    db,                \* rows of table agent_findings
    pc,                \* "idle", "loop", "store", "returned", "raised"
    session_id,        \* processed_content.session_id
    agents_to_use,     \* start_review local
    idx,               \* position of the for loop in agents_to_use
    agent_findings,    \* start_review local: list returned by execute_review
    pos,               \* position of the inner for loop in agent_findings
    all_findings,      \* start_review local
    agent_results,     \* start_review local (dict)
    successful_agents, \* start_review local
    result,            \* the ReviewResult returned, <<>> before
    produced,          \* findings returned by review() so far (bounded)
    trace,             \* history of collaborator calls, for the ordering claims
    fetched            \* what get_review_by_session returned, once called

\* LLMManager (src/ai/llm_provider.py)
VARIABLES
    providers,         \* LLMManager.providers: the registered provider names
    default_provider,  \* Config.DEFAULT_PROVIDER
    fallback_provider, \* Config.FALLBACK_PROVIDER
    llm_pc,            \* "idle", "primary", "fallback", "returned", "raised"
    provider,          \* the provider argument of generate_response
    provider_name,     \* generate_response local
    calls,             \* history: the provider calls of this generate_response
    llm_out            \* what generate_response returned or raised

\* the AI-response parsers (src/agents/*_agent.py)
VARIABLES
    response,          \* the text to parse, as its lines
    parser,            \* the agent whose parser ran: "none" before
    parsed             \* the findings the parser returned

\* the rule-based validators of FormattingAgent
VARIABLES
    conv_match,        \* the conversion statement of the text: rule, value1, value2
    conv_findings,     \* the findings _validate_conversions returned
    conv_pc,           \* "text", then "validated"
    decimal_value,     \* the argument of _decimal_to_fraction
    fraction_text,     \* the text it returned
    round_trip,        \* what _fraction_to_decimal made of that text
    frac_pc            \* "decimal", "fraction", "back"

\* BaseReviewAgent.execute_review of one agent on one document
VARIABLES
    review_agent,      \* the agent whose execute_review runs
    document_text,     \* context.document_text, as its lines
    llm_manager,       \* whether self.llm_manager is set
    review_pc,         \* "idle", "ai", "rules", "done"
    gateway_failed,    \* generate_response raised in this run
    ai_findings,       \* what the AI review returned
    rule_findings,     \* what _perform_rule_based_review returned
    review_out,        \* what review() did: raised, or the list it returned
    filtered_findings, \* what execute_review returned
    second_run,        \* the rule-based review was called a second time
    rerun_findings     \* what it returned on the same text that time

orchVars == << agents, db, pc, session_id, agents_to_use, idx, agent_findings, pos,
               all_findings, agent_results, successful_agents, result, produced, trace,
               fetched >>

llmVars == << providers, default_provider, fallback_provider, llm_pc, provider,
              provider_name, calls, llm_out >>

parserVars == << response, parser, parsed >>

convVars == << conv_match, conv_findings, conv_pc >>

fracVars == << decimal_value, fraction_text, round_trip, frac_pc >>

reviewVars == << review_agent, document_text, llm_manager, review_pc, gateway_failed,
                 ai_findings, rule_findings, review_out, filtered_findings,
                 second_run, rerun_findings >>

\* the variables start_review does not touch
notOrch == << llmVars, parserVars, convVars, fracVars, reviewVars >>

\* the variables LLMManager.generate_response does not touch
notLlm == << orchVars, parserVars, convVars, fracVars, reviewVars >>

\* the variables the parsers do not touch
notParser == << orchVars, llmVars, convVars, fracVars, reviewVars >>

\* the variables _validate_conversions does not touch
notConv == << orchVars, llmVars, parserVars, fracVars, reviewVars >>

\* the variables the fraction routines do not touch
notFrac == << orchVars, llmVars, parserVars, convVars, reviewVars >>

\* the variables execute_review of a single agent does not touch
notReview == << orchVars, llmVars, parserVars, convVars, fracVars >>

vars == << orchVars, llmVars, parserVars, convVars, fracVars, reviewVars >>

NoProvider == ""

NoOutput == [raised |-> FALSE, error |-> "", text |-> ""]

\* an LLMManager on which generate_response is not running
LlmIdle ==
    /\ llm_pc = "idle"
    /\ provider = NoProvider
    /\ provider_name = NoProvider
    /\ calls = <<>>
    /\ llm_out = NoOutput

\* no response is being parsed
ParserIdle ==
    /\ response = <<>>
    /\ parser = "none"
    /\ parsed = <<>>

\* no text is being validated for conversions
ConvIdle ==
    /\ conv_match = <<>>
    /\ conv_findings = <<>>
    /\ conv_pc = "idle"

\* no fraction is being converted
FracIdle ==
    /\ decimal_value = <<>>
    /\ fraction_text = <<>>
    /\ round_trip = <<>>
    /\ frac_pc = "idle"

\* what review() did before it ran
NoReview == [raised |-> FALSE, findings |-> <<>>]

\* no agent is reviewing on its own
ReviewIdle ==
    /\ review_agent = "none"
    /\ document_text = <<>>
    /\ llm_manager = FALSE
    /\ review_pc = "idle"
    /\ gateway_failed = FALSE
    /\ ai_findings = <<>>
    /\ rule_findings = <<>>
    /\ review_out = NoReview
    /\ filtered_findings = <<>>
    /\ second_run = FALSE
    /\ rerun_findings = <<>>

ValidatorsIdle == ConvIdle /\ FracIdle /\ ReviewIdle

\* the configuration the review of a document runs under (Config defaults)
LlmDefault ==
    /\ providers = {"groq", "gemini"}
    /\ default_provider = "groq"
    /\ fallback_provider = "gemini"
    /\ LlmIdle

\* get_review_by_session has not been called
NotFetched == [ called |-> FALSE, session_id |-> NoSession, review |-> <<>> ]

\* a row of another session that an earlier run left in the store
PriorRow ==
    [ id |-> 1, session_id |-> OtherSession, agent_name |-> Role("technical"),
      severity |-> "info", confidence |-> 7 ]

Init ==
    /\ agents \in Registries
    /\ db \in { <<>>, <<PriorRow>> }
    /\ pc = "idle"
    /\ session_id = NoSession
    /\ agents_to_use = <<>>
    /\ idx = 1
    /\ agent_findings = <<>>
    /\ pos = 1
    /\ all_findings = <<>>
    /\ agent_results = <<>>
    /\ successful_agents = 0
    /\ result = <<>>
    /\ produced = 0
    /\ trace = <<>>
    /\ fetched = NotFetched
    /\ LlmDefault
    /\ ParserIdle
    /\ ValidatorsIdle

\* ------------------------------------------------ BaseReviewAgent
\* create_finding: a new AgentFinding without id; uid stands for the identity
\* of the python object (loop iteration, position in review()'s list)
CreateFinding(sid, name, severity, confidence, uid) ==
    [ id |-> NoId, session_id |-> sid, agent_name |-> Role(name),
      severity |-> severity, confidence |-> confidence, uid |-> uid ]

\* the comparison turned around
PassesThresholdReversed(f, t) == f.confidence <= t

\* the comparison of the list comprehension in execute_review
PassesThreshold(f, t) == f.confidence >= t

\* execute_review without its except clause
ExecuteReviewNoCatch(t, outcome) ==
    [raised |-> outcome.raised,
     findings |-> SelectSeq(outcome.findings, LAMBDA f : PassesThreshold(f, t))]

\* execute_review: outcome is what review(context) did, either raised or
\* returned a list.  The result tells whether execute_review itself raised
\* and the list it returned: the except clause turns a raise into [].
ExecuteReview(t, outcome) ==
    IF outcome.raised
    THEN [raised |-> FALSE, findings |-> <<>>]
    ELSE [raised |-> FALSE,
          findings |-> SelectSeq(outcome.findings, LAMBDA f : PassesThreshold(f, t))]

\* what a call of review() can do in iteration i with n findings left to bound
ReviewOutcomes(sid, name, i, n) ==
    { [raised |-> TRUE, findings |-> <<>>] } \cup
    { [raised |-> FALSE,
       findings |-> [j \in 1..Len(raw) |->
                       CreateFinding(sid, name, raw[j][1], raw[j][2], <<i, j>>)]]
      : raw \in SeqsUpTo(Severities \X Confidences, n) }

\* ------------------------------------------------ DatabaseManager
\* the row add_agent_finding inserts; AUTOINCREMENT gives the next id
NewRow(f) ==
    [ id |-> Len(db) + 1, session_id |-> f.session_id, agent_name |-> f.agent_name,
      severity |-> f.severity, confidence |-> f.confidence ]

\* ------------------------------------------------ AgentManager
\* the status chain without its middle branch
ReviewStatusNoPartial(successful, requested) ==
    IF successful = 0 THEN "failed" ELSE "completed"

\* the status chain of start_review
ReviewStatus(successful, requested) ==
    IF successful = 0 THEN "failed"
    ELSE IF successful < requested THEN "partial"
    ELSE "completed"

SeverityCount(findings, sev) ==
    Cardinality({ i \in 1..Len(findings) : findings[i].severity = sev })

\* "Agent breakdown": the agents with a non-empty list, in dict order
AgentInfo(results) ==
    LET nonEmpty == SelectSeq(results, LAMBDA e : e.val # <<>>)
    IN  [i \in 1..Len(nonEmpty) |-> [key |-> nonEmpty[i].key, val |-> Len(nonEmpty[i].val)]]

NoIssuesSummary ==
    [ text |-> "No issues found in the document.", error |-> 0, warning |-> 0,
      info |-> 0, breakdown |-> <<>>, note |-> FALSE ]

FailedSummary ==
    [ text |-> "Review failed - unable to complete analysis.", error |-> 0,
      warning |-> 0, info |-> 0, breakdown |-> <<>>, note |-> FALSE ]

\* _create_review_summary; the summary string is kept as its parts
CreateReviewSummary(findings, results, status) ==
    IF findings = <<>> THEN NoIssuesSummary
    ELSE IF status = "failed" THEN FailedSummary
    ELSE LET e == SeverityCount(findings, "error")
             w == SeverityCount(findings, "warning")
             n == SeverityCount(findings, "info")
         IN  [ text |-> IF e > 0 \/ w > 0 \/ n > 0
                        THEN "Review found:"
                        ELSE "Review completed with mixed results.",
               error |-> e, warning |-> w, info |-> n,
               breakdown |-> AgentInfo(results),
               note |-> (status = "partial") ]

\* ------------------------------------------------ history
NoUid == <<0, 0>>

\* one entry of the history of an iteration of the loop of start_review
Event(op, i, name) ==
    [ op |-> op, iter |-> i, agent |-> name, review_raised |-> FALSE,
      returned |-> <<>>, dropped |-> 0, uid |-> NoUid, id |-> NoId, confidence |-> 0 ]

ExecuteEvent(i, name, outcome, res) ==
    [ Event("execute_review", i, name) EXCEPT
        !.review_raised = outcome.raised,
        !.returned = [j \in 1..Len(res.findings) |-> res.findings[j].uid],
        !.dropped = Len(outcome.findings) - Len(res.findings) ]

AddEvent(i, name, f, id) ==
    [ Event("add_agent_finding", i, name) EXCEPT
        !.uid = f.uid, !.id = id, !.confidence = f.confidence ]

CurrentName == agents_to_use[idx]

\* start_review, lines 62-94: the precondition and the locals
StartReview(sid, req) ==
    /\ pc = "idle"
    /\ session_id' = sid
    /\ IF sid = NoSession
       THEN /\ pc' = "raised"
            /\ UNCHANGED agents_to_use
       ELSE /\ pc' = "loop"
            /\ agents_to_use' = IF req = DefaultRequest THEN agents ELSE req
    /\ idx' = 1
    /\ all_findings' = <<>>
    /\ agent_results' = <<>>
    /\ successful_agents' = 0
    /\ UNCHANGED << fetched, agents, db, agent_findings, pos, result, produced, trace >>
    /\ UNCHANGED notOrch

\* an unknown name recorded with [] as a failing agent is
SkipUnknownAgentRecorded ==
    /\ pc = "loop"
    /\ idx <= Len(agents_to_use)
    /\ CurrentName \notin Range(agents)
    /\ idx' = idx + 1
    /\ agent_results' = DictSet(agent_results, CurrentName, <<>>)
    /\ trace' = Append(trace, Event("skipped", idx, CurrentName))
    /\ UNCHANGED << fetched, agents, db, pc, session_id, agents_to_use, agent_findings, pos,
                    all_findings, successful_agents, result, produced >>
    /\ UNCHANGED notOrch

\* lines 97-99: an unknown name is skipped
SkipUnknownAgent ==
    /\ pc = "loop"
    /\ idx <= Len(agents_to_use)
    /\ CurrentName \notin Range(agents)
    /\ idx' = idx + 1
    /\ trace' = Append(trace, Event("skipped", idx, CurrentName))
    /\ UNCHANGED << fetched, agents, db, pc, session_id, agents_to_use, agent_findings, pos,
                    all_findings, agent_results, successful_agents, result, produced >>
    /\ UNCHANGED notOrch

\* lines 102-103: agent.execute_review(context); were it to raise, the
\* except clause of lines 121-128 would record [] for the agent
RunAgent(outcome) ==
    /\ pc = "loop"
    /\ idx <= Len(agents_to_use)
    /\ CurrentName \in Range(agents)
    /\ LET res == ExecuteReview(ConfidenceThreshold(CurrentName), outcome)
       IN  IF res.raised
           THEN /\ agent_results' = DictSet(agent_results, CurrentName, <<>>)
                /\ trace' = Append(Append(trace, ExecuteEvent(idx, CurrentName, outcome, res)),
                                   Event("agent_failed", idx, CurrentName))
                /\ idx' = idx + 1
                /\ UNCHANGED << agent_findings, pos, pc >>
           ELSE /\ agent_findings' = res.findings
                /\ trace' = Append(trace, ExecuteEvent(idx, CurrentName, outcome, res))
                /\ pos' = 1
                /\ pc' = "store"
                /\ UNCHANGED << agent_results, idx >>
    /\ produced' = produced + Len(outcome.findings)
    /\ UNCHANGED << fetched, agents, db, session_id, agents_to_use, all_findings,
                    successful_agents, result >>
    /\ UNCHANGED notOrch

\* the registered agent of the current iteration runs; its review() does any
\* of the things the bound on the findings leaves
RunRequestedAgent ==
    /\ pc = "loop"
    /\ idx <= Len(agents_to_use)
    /\ \E outcome \in ReviewOutcomes(session_id, CurrentName, idx, MaxFindings - produced) :
          RunAgent(outcome)

\* the insert without line 108
AddFindingNoId ==
    /\ pc = "store"
    /\ pos <= Len(agent_findings)
    /\ LET row == NewRow(agent_findings[pos])
       IN  /\ db' = Append(db, row)
           /\ trace' = Append(trace, AddEvent(idx, CurrentName, agent_findings[pos], row.id))
    /\ pos' = pos + 1
    /\ UNCHANGED << fetched, agents, pc, session_id, agents_to_use, idx, agent_findings,
                    all_findings, agent_results, successful_agents, result, produced >>
    /\ UNCHANGED notOrch

\* lines 106-108: one finding is inserted and gets the row id
AddFinding ==
    /\ pc = "store"
    /\ pos <= Len(agent_findings)
    /\ LET row == NewRow(agent_findings[pos])
       IN  /\ db' = Append(db, row)
           /\ agent_findings' = [agent_findings EXCEPT ![pos].id = row.id]
           /\ trace' = Append(trace, AddEvent(idx, CurrentName, agent_findings[pos], row.id))
    /\ pos' = pos + 1
    /\ UNCHANGED << fetched, agents, pc, session_id, agents_to_use, idx, all_findings,
                    agent_results, successful_agents, result, produced >>
    /\ UNCHANGED notOrch

\* the insert raises and nothing catches it
AddFindingPropagates ==
    /\ pc = "store"
    /\ pos <= Len(agent_findings)
    /\ trace' = Append(trace, Event("agent_failed", idx, CurrentName))
    /\ pc' = "raised"
    /\ UNCHANGED << fetched, agents, db, session_id, agents_to_use, idx, agent_findings, pos,
                    all_findings, agent_results, successful_agents, result, produced >>
    /\ UNCHANGED notOrch

\* lines 107 and 121-128: the insert raises, the except clause records []
AddFindingFails ==
    /\ pc = "store"
    /\ pos <= Len(agent_findings)
    /\ agent_results' = DictSet(agent_results, CurrentName, <<>>)
    /\ trace' = Append(trace, Event("agent_failed", idx, CurrentName))
    /\ idx' = idx + 1
    /\ pc' = "loop"
    /\ UNCHANGED << fetched, agents, db, session_id, agents_to_use, agent_findings, pos,
                    all_findings, successful_agents, result, produced >>
    /\ UNCHANGED notOrch

\* line 111 putting the new findings first
AgentCompletedPrepend ==
    /\ pc = "store"
    /\ pos > Len(agent_findings)
    /\ agent_results' = DictSet(agent_results, CurrentName, agent_findings)
    /\ all_findings' = agent_findings \o all_findings
    /\ successful_agents' = successful_agents + 1
    /\ trace' = Append(trace, Event("agent_completed", idx, CurrentName))
    /\ idx' = idx + 1
    /\ pc' = "loop"
    /\ UNCHANGED << fetched, agents, db, session_id, agents_to_use, agent_findings, pos,
                    result, produced >>
    /\ UNCHANGED notOrch

\* lines 110-112: every finding is stored, the agent counts as successful
AgentCompleted ==
    /\ pc = "store"
    /\ pos > Len(agent_findings)
    /\ agent_results' = DictSet(agent_results, CurrentName, agent_findings)
    /\ all_findings' = all_findings \o agent_findings
    /\ successful_agents' = successful_agents + 1
    /\ trace' = Append(trace, Event("agent_completed", idx, CurrentName))
    /\ idx' = idx + 1
    /\ pc' = "loop"
    /\ UNCHANGED << fetched, agents, db, session_id, agents_to_use, agent_findings, pos,
                    result, produced >>
    /\ UNCHANGED notOrch

\* lines 130-161: status, summary and the ReviewResult
FinishReview ==
    /\ pc = "loop"
    /\ idx > Len(agents_to_use)
    /\ LET status == ReviewStatus(successful_agents, Len(agents_to_use))
       IN  result' = [ session_id |-> session_id,
                       findings |-> all_findings,
                       agent_results |-> agent_results,
                       status |-> status,
                       summary |-> CreateReviewSummary(all_findings, agent_results, status) ]
    /\ pc' = "returned"
    /\ UNCHANGED << fetched, agents, db, session_id, agents_to_use, idx, agent_findings, pos,
                    all_findings, agent_results, successful_agents, produced, trace >>
    /\ UNCHANGED notOrch

\* DatabaseManager.get_session_findings: the rows of the session; rows are
\* inserted one by one, so ORDER BY created_at gives them in insertion order
GetSessionFindings(sid) == SelectSeq(db, LAMBDA row : row.session_id = sid)

\* get_review_by_session, lines 223-228: the findings grouped by the
\* agent_name of the row, in dict order
RECURSIVE GroupByAgentName(_, _)
GroupByAgentName(findings, results) ==
    IF findings = <<>> THEN results
    ELSE LET finding == Head(findings)
             sofar == IF DictHas(results, finding.agent_name)
                      THEN DictGet(results, finding.agent_name)
                      ELSE <<>>
         IN  GroupByAgentName(Tail(findings),
                              DictSet(results, finding.agent_name, Append(sofar, finding)))

\* what get_review_by_session returns when the store answers: None as <<>>,
\* a ReviewResult as a list of one
ReviewBySession(sid) ==
    LET findings == GetSessionFindings(sid)
        results == GroupByAgentName(findings, <<>>)
    IN  IF findings = <<>> THEN <<>>
        ELSE << [ session_id |-> sid,
                  findings |-> findings,
                  agent_results |-> results,
                  status |-> "completed",
                  summary |-> CreateReviewSummary(findings, results, "completed") ] >>

\* get_review_by_session(sid) after start_review returned; when the store
\* raises, the except clause of lines 243-245 returns None
GetReviewBySession(sid, storeRaises) ==
    /\ pc = "returned"
    /\ ~fetched.called
    /\ fetched' = [ called |-> TRUE, session_id |-> sid,
                    review |-> IF storeRaises THEN <<>> ELSE ReviewBySession(sid) ]
    /\ UNCHANGED << agents, db, pc, session_id, agents_to_use, idx, agent_findings, pos,
                    all_findings, agent_results, successful_agents, result, produced,
                    trace >>
    /\ UNCHANGED notOrch

Next ==
    \/ \E sid \in {NoSession, ThisSession} :
         \E req \in {DefaultRequest} \cup SeqsUpTo(AgentNames, MaxRequest) :
            StartReview(sid, req)
    \/ SkipUnknownAgent
    \/ RunRequestedAgent
    \/ AddFinding
    \/ AddFindingFails
    \/ AgentCompleted
    \/ FinishReview

Spec == Init /\ [][Next]_vars

\* a review by an AgentManager whose two agents were both constructed,
\* followed by get_review_by_session for the session reviewed
FetchInit == Init /\ agents = <<"technical", "diagram">>

FetchNext ==
    \/ \E sid \in {NoSession, ThisSession} :
         \E req \in {DefaultRequest} \cup SeqsUpTo(AgentNames, MaxRequest) :
            StartReview(sid, req)
    \/ SkipUnknownAgent
    \/ RunRequestedAgent
    \/ AddFinding
    \/ AddFindingFails
    \/ AgentCompleted
    \/ FinishReview
    \/ \E storeRaises \in BOOLEAN : GetReviewBySession(session_id, storeRaises)

FetchSpec == FetchInit /\ [][FetchNext]_vars

\* ------------------------------------------------ reading the history
Events(op) == { k \in 1..Len(trace) : trace[k].op = op }

\* the loop iterations of the current start_review that are over
Iterations == 1..(idx - 1)

Registered(i) == agents_to_use[i] \in Range(agents)

\* iteration i ran to line 112 / ended in the except clause
Completed(i) == \E k \in Events("agent_completed") : trace[k].iter = i

Failed(i) == \E k \in Events("agent_failed") : trace[k].iter = i

ReviewRaised(i) ==
    \E k \in Events("execute_review") : trace[k].iter = i /\ trace[k].review_raised

\* C1: every Finding execute_review returns has confidence >= the agent's
\* threshold, and no Finding below the threshold is passed to add_agent_finding.
C1_ConfidenceFilter ==
    /\ pc = "store" =>
         \A k \in 1..Len(agent_findings) :
            agent_findings[k].confidence >= ConfidenceThreshold(CurrentName)
    /\ \A k \in Events("add_agent_finding") :
            trace[k].confidence >= ConfidenceThreshold(trace[k].agent)

\* review() returned a finding below the threshold next to one that was stored
C1_Witness ==
    \E k \in Events("execute_review") :
        /\ trace[k].dropped > 0
        /\ \E a \in Events("add_agent_finding") : trace[a].iter = trace[k].iter

\* C2: when review() raises, execute_review returns an empty list and raises
\* nothing itself: the loop of start_review goes on to line 106 with [].
C2_ReviewErrorSwallowed ==
    /\ \A k \in Events("execute_review") :
          trace[k].review_raised =>
             /\ trace[k].returned = <<>>
             /\ ~ Failed(trace[k].iter)
    /\ \A k \in 1..Len(trace) :
          (trace[k].op = "execute_review" /\ trace[k].review_raised /\ k = Len(trace))
             => (pc = "store" /\ agent_findings = <<>>)

\* a review() raised and start_review went on
C2_Witness ==
    \E k \in Events("execute_review") :
        trace[k].review_raised /\ Completed(trace[k].iter)

\* ------------------------------------------------ the returned ReviewResult
Returned == pc = "returned"

AllIterations == 1..Len(agents_to_use)

RegisteredIterations == { i \in AllIterations : Registered(i) }

CompletedIterations == { i \in RegisteredIterations : Completed(i) }

FailedIterations == { i \in RegisteredIterations : Failed(i) }

\* the status the specification gives: counted over the registered agents
\* that were requested, unknown names counting toward neither total
StatusByAgents ==
    IF Cardinality(CompletedIterations) = 0 THEN "failed"
    ELSE IF Cardinality(CompletedIterations) < Cardinality(RegisteredIterations)
         THEN "partial"
    ELSE "completed"

\* C3: the status is "failed" if no requested agent completed its iteration
\* of the loop without raising, "partial" if some but not all did,
\* "completed" if all did, and depends on nothing else.
C3_StatusByAgentsOnly == Returned => result.status = StatusByAgents

\* C4: an unregistered name counts toward neither total: when every
\* registered agent of the request completes, the status is "completed"
\* even if the request also holds unregistered names.
C4_UnknownNamesDoNotCount ==
    ( /\ Returned
      /\ RegisteredIterations # AllIterations
      /\ RegisteredIterations # {}
      /\ CompletedIterations = RegisteredIterations )
    => result.status = "completed"

NameOf(i) == agents_to_use[i]

\* the event of the execute_review call of iteration i
ExecuteEventOf(i) ==
    trace[CHOOSE k \in Events("execute_review") : trace[k].iter = i]

\* the findings of iteration i in a list, and the object identities of a list
FindingsOf(list, i) == SelectSeq(list, LAMBDA f : f.uid[1] = i)

Uids(list) == [j \in 1..Len(list) |-> list[j].uid]

\* every registered name is requested once
DistinctAgents ==
    \A i, j \in RegisteredIterations : NameOf(i) = NameOf(j) => i = j

\* C5: when the loop iteration of exactly one of several requested registered
\* agents raises and the others complete, the status is "partial",
\* agent_results holds [] for the failing agent and the list execute_review
\* returned for each other agent (several agents: each requested once).
C5_OneAgentFails ==
    ( /\ Returned
      /\ Cardinality(FailedIterations) = 1
      /\ Cardinality(RegisteredIterations) >= 2 )
    => /\ result.status = "partial"
       /\ DistinctAgents =>
            /\ \A i \in FailedIterations :
                  /\ DictHas(result.agent_results, NameOf(i))
                  /\ DictGet(result.agent_results, NameOf(i)) = <<>>
            /\ \A i \in RegisteredIterations \ FailedIterations :
                  /\ DictHas(result.agent_results, NameOf(i))
                  /\ Uids(DictGet(result.agent_results, NameOf(i)))
                        = ExecuteEventOf(i).returned
                  /\ DictGet(result.agent_results, NameOf(i))
                        = FindingsOf(result.findings, i)

\* one of two agents failed on the store, the other returned findings
C5_Witness ==
    /\ Returned
    /\ Cardinality(FailedIterations) = 1
    /\ Cardinality(RegisteredIterations) >= 2
    /\ DistinctAgents
    /\ \E i \in CompletedIterations : DictGet(result.agent_results, NameOf(i)) # <<>>

\* C6: under total failure (the iteration of every requested agent raises)
\* the result has status "failed", no findings and the failure summary in
\* place of the tally or the no-issues message.
C6_TotalFailureSummary ==
    ( /\ Returned
      /\ AllIterations # {}
      /\ RegisteredIterations = AllIterations
      /\ FailedIterations = AllIterations )
    => /\ result.status = "failed"
       /\ result.findings = <<>>
       /\ result.summary = FailedSummary

\* C7: an agent whose review() raised counts as succeeded: its iteration
\* completes and adds one to successful_agents, agent_results holds [] for
\* it, and a request of registered agents none of whose iterations raised
\* is "completed" whatever their review() did.
C7_ReviewErrorCountsAsSuccess ==
    /\ successful_agents = Cardinality({ i \in Iterations : Completed(i) })
    /\ \A i \in Iterations :
          (Registered(i) /\ ReviewRaised(i)) =>
             /\ Completed(i)
             /\ (\A j \in Iterations : NameOf(j) = NameOf(i) => j <= i)
                  => /\ DictHas(agent_results, NameOf(i))
                     /\ DictGet(agent_results, NameOf(i)) = <<>>
    /\ ( /\ Returned
         /\ AllIterations # {}
         /\ RegisteredIterations = AllIterations
         /\ FailedIterations = {} )
       => result.status = "completed"

\* a review() raised and the review is "completed"
C7_Witness ==
    /\ Returned
    /\ \E i \in AllIterations : ReviewRaised(i)
    /\ result.status = "completed"

\* C8: start_review raises only when session_id is not set, and then before
\* any agent ran or any finding was stored; with a session_id it goes on
\* through every agent and store failure until it returns a ReviewResult.
C8_OnlyPreconditionRaises ==
    /\ pc = "raised" =>
          /\ session_id = NoSession
          /\ trace = <<>>
          /\ result = <<>>
          /\ \A k \in 1..Len(db) : db[k].session_id = OtherSession
    /\ pc \in {"loop", "store"} =>
          /\ session_id # NoSession
          /\ ENABLED Next
    /\ Returned => result.session_id = session_id /\ session_id # NoSession

\* a review whose agents failed in both ways returned a result
C8_Witness ==
    /\ Returned
    /\ FailedIterations # {}
    /\ \E i \in AllIterations : ReviewRaised(i)

RECURSIVE ConcatCompleted(_)
\* the lists execute_review returned in the completed iterations 1..i, in order
ConcatCompleted(i) ==
    IF i = 0 THEN <<>>
    ELSE ConcatCompleted(i - 1) \o
         (IF Registered(i) /\ Completed(i) THEN ExecuteEventOf(i).returned ELSE <<>>)

\* C9: the agents run in the order of the requested list, once for each
\* registered entry, and ReviewResult.findings is the concatenation in that
\* order of the filtered lists of the successful agents, each in the order
\* review() gave.
C9_RequestOrder ==
    /\ \A k \in Events("execute_review") :
          /\ trace[k].agent = NameOf(trace[k].iter)
          /\ \A j \in Events("execute_review") : j < k => trace[j].iter < trace[k].iter
          /\ \A a, b \in 1..Len(trace[k].returned) :
                a < b => trace[k].returned[a][2] < trace[k].returned[b][2]
    /\ Returned =>
          /\ { trace[k].iter : k \in Events("execute_review") } = RegisteredIterations
          /\ Uids(result.findings) = ConcatCompleted(Len(agents_to_use))

\* findings of two agents are in the result
C9_Witness ==
    /\ Returned
    /\ \E n, m \in 1..Len(result.findings) :
          result.findings[n].uid[1] < result.findings[m].uid[1]

\* C10: for every Finding of the ReviewResult add_agent_finding was called
\* exactly once, after the execute_review of its agent returned and before
\* the next agent started, and the Finding's id is the row id of that call.
C10_StoredOnceWithId ==
    Returned =>
       \A n \in 1..Len(result.findings) :
          LET f == result.findings[n]
              adds == { k \in Events("add_agent_finding") : trace[k].uid = f.uid }
          IN  /\ Cardinality(adds) = 1
              /\ \A k \in adds :
                    /\ trace[k].id = f.id
                    /\ f.id # NoId
                    /\ f.id \in 1..Len(db)
                    /\ db[f.id].id = f.id
                    /\ db[f.id].session_id = session_id
                    /\ \E e \in Events("execute_review") :
                          trace[e].iter = f.uid[1] /\ e < k
                    /\ \A e \in Events("execute_review") :
                          trace[e].iter > f.uid[1] => k < e

\* a stored finding of a first agent, with a second agent run after it
C10_Witness ==
    /\ Returned
    /\ \E n \in 1..Len(result.findings) :
          \E e \in Events("execute_review") : trace[e].iter > result.findings[n].uid[1]

\* ====================================================== LLM gateway
\* (src/ai/llm_provider.py)

ProviderNames == {"groq", "gemini"}

\* what the provider argument can be: absent, a provider, an unknown name
ProviderArgs == {NoProvider, "groq", "gemini", "mistral"}

\* the ways client.post / raise_for_status fail
TransportErrors == {"http_status_error", "network_error", "timeout"}

\* the bodies of an HTTP 200 answer, by name
EnvelopeShapes ==
    { "openai", "openai_empty_text", "openai_no_choices", "openai_empty_choices",
      "openai_no_message", "openai_no_content",
      "gemini", "gemini_no_content", "gemini_no_parts", "gemini_empty_parts",
      "gemini_no_text" }

\* response.json() of each body; a json object is a record, an array a sequence
Envelope(shape) ==
    CASE shape = "openai" ->
            [choices |-> << [message |-> [content |-> "openai text"]] >>]
      [] shape = "openai_empty_text" ->
            [choices |-> << [message |-> [content |-> ""]] >>]
      [] shape = "openai_no_choices" -> [error |-> "rate limited"]
      [] shape = "openai_empty_choices" -> [choices |-> << >>]
      [] shape = "openai_no_message" -> [choices |-> << [finish_reason |-> "stop"] >>]
      [] shape = "openai_no_content" ->
            [choices |-> << [message |-> [role |-> "assistant"]] >>]
      [] shape = "gemini" ->
            [candidates |-> << [content |-> [parts |-> << [text |-> "gemini text"] >>]] >>]
      [] shape = "gemini_no_content" -> [candidates |-> << [finishReason |-> "SAFETY"] >>]
      [] shape = "gemini_no_parts" -> [candidates |-> << [content |-> [role |-> "model"]] >>]
      [] shape = "gemini_empty_parts" -> [candidates |-> << [content |-> [parts |-> << >>]] >>]
      [] shape = "gemini_no_text" ->
            [candidates |-> << [content |-> [parts |-> << [inlineData |-> "png"] >>]] >>]

\* what one HTTP exchange can do
HttpOutcomes ==
    { [kind |-> e, body |-> ""] : e \in TransportErrors } \cup
    { [kind |-> "ok", body |-> b] : b \in EnvelopeShapes }

Raise(error) == [raised |-> TRUE, error |-> error, text |-> ""]

Return(text) == [raised |-> FALSE, error |-> "", text |-> text]

\* GroqProvider.generate_response, lines 64-85: both except clauses re-raise
GroqGenerateResponse(http) ==
    IF http.kind # "ok" THEN Raise(http.kind)
    ELSE LET res == Envelope(http.body)
         IN  IF "choices" \in DOMAIN res /\ Len(res.choices) > 0
             THEN IF "message" \notin DOMAIN res.choices[1] THEN Raise("KeyError")
                  ELSE IF "content" \notin DOMAIN res.choices[1].message
                       THEN Raise("KeyError")
                  ELSE Return(res.choices[1].message.content)
             ELSE Return("")

\* GeminiProvider.generate_response, lines 132-158
GeminiGenerateResponse(http) ==
    IF http.kind # "ok" THEN Raise(http.kind)
    ELSE LET res == Envelope(http.body)
         IN  IF /\ "candidates" \in DOMAIN res
                /\ Len(res.candidates) > 0
                /\ "content" \in DOMAIN res.candidates[1]
                /\ "parts" \in DOMAIN res.candidates[1].content
                /\ Len(res.candidates[1].content.parts) > 0
             THEN IF "text" \notin DOMAIN res.candidates[1].content.parts[1]
                  THEN Raise("KeyError")
                  ELSE Return(res.candidates[1].content.parts[1].text)
             ELSE Return("")

\* self.providers[name].generate_response(...)
ProviderGenerateResponse(name, http) ==
    IF name = "groq" THEN GroqGenerateResponse(http) ELSE GeminiGenerateResponse(http)

\* an except clause that names only the HTTP status error
CaughtHttpStatusOnly(error) == error = "http_status_error"

\* line 224, `except Exception` around the primary call
PrimaryCaught(error) == TRUE

\* line 238, `except Exception` around the fallback call
FallbackCaught(error) == TRUE

\* the test of lines 232-233 without its first half
FallbackEligibleRegistered == fallback_provider \in providers

\* lines 232-233
FallbackEligible ==
    /\ fallback_provider # provider_name
    /\ fallback_provider \in providers

AllProvidersFailed == Raise("RuntimeError: All LLM providers failed")

CallRecord(name, http, out) ==
    [ provider |-> name, http |-> http, raised |-> out.raised, text |-> out.text ]

\* an LLMManager after __init__: the providers whose key is set and whose
\* constructor did not raise; the two names come from the environment
LlmInit ==
    /\ providers \in SUBSET ProviderNames
    /\ default_provider \in ProviderNames
    /\ fallback_provider \in ProviderNames
    /\ LlmIdle

\* line 216
GenerateResponse(arg) ==
    /\ llm_pc = "idle"
    /\ provider' = arg
    /\ provider_name' = IF arg = NoProvider THEN default_provider ELSE arg
    /\ llm_pc' = "primary"
    /\ UNCHANGED << providers, default_provider, fallback_provider, calls, llm_out >>
    /\ UNCHANGED notLlm

\* the target's answer taken as a failure when it is the empty string
CallPrimaryEmptyFails(http) ==
    /\ llm_pc = "primary"
    /\ provider_name \in providers
    /\ LET out == ProviderGenerateResponse(provider_name, http)
       IN  /\ calls' = Append(calls, CallRecord(provider_name, http, out))
           /\ IF ~ out.raised /\ out.text # ""
              THEN llm_pc' = "returned" /\ llm_out' = out
              ELSE llm_pc' = "fallback" /\ UNCHANGED llm_out
    /\ UNCHANGED << providers, default_provider, fallback_provider, provider, provider_name >>
    /\ UNCHANGED notLlm

\* lines 219-229 when the target is registered
CallPrimary(http) ==
    /\ llm_pc = "primary"
    /\ provider_name \in providers
    /\ LET out == ProviderGenerateResponse(provider_name, http)
       IN  /\ calls' = Append(calls, CallRecord(provider_name, http, out))
           /\ IF ~ out.raised
              THEN llm_pc' = "returned" /\ llm_out' = out
              ELSE IF PrimaryCaught(out.error)
                   THEN llm_pc' = "fallback" /\ UNCHANGED llm_out
                   ELSE llm_pc' = "raised" /\ llm_out' = out
    /\ UNCHANGED << providers, default_provider, fallback_provider, provider, provider_name >>
    /\ UNCHANGED notLlm

\* line 219 when the target is not registered
SkipPrimary ==
    /\ llm_pc = "primary"
    /\ provider_name \notin providers
    /\ llm_pc' = "fallback"
    /\ UNCHANGED << providers, default_provider, fallback_provider, provider,
                    provider_name, calls, llm_out >>
    /\ UNCHANGED notLlm

\* lines 232-245 when the fallback is tried
CallFallback(http) ==
    /\ llm_pc = "fallback"
    /\ FallbackEligible
    /\ LET out == ProviderGenerateResponse(fallback_provider, http)
       IN  /\ calls' = Append(calls, CallRecord(fallback_provider, http, out))
           /\ IF ~ out.raised
              THEN llm_pc' = "returned" /\ llm_out' = out
              ELSE IF FallbackCaught(out.error)
                   THEN llm_pc' = "raised" /\ llm_out' = AllProvidersFailed
                   ELSE llm_pc' = "raised" /\ llm_out' = out
    /\ UNCHANGED << providers, default_provider, fallback_provider, provider, provider_name >>
    /\ UNCHANGED notLlm

\* lines 232-233 and 245 when there is no fallback to try
NoFallback ==
    /\ llm_pc = "fallback"
    /\ ~ FallbackEligible
    /\ llm_pc' = "raised"
    /\ llm_out' = AllProvidersFailed
    /\ UNCHANGED << providers, default_provider, fallback_provider, provider,
                    provider_name, calls >>
    /\ UNCHANGED notLlm

OrchIdle ==
    /\ agents = <<"technical", "diagram">>
    /\ db = <<>>
    /\ pc = "idle"
    /\ session_id = NoSession
    /\ agents_to_use = <<>>
    /\ idx = 1
    /\ agent_findings = <<>>
    /\ pos = 1
    /\ all_findings = <<>>
    /\ agent_results = <<>>
    /\ successful_agents = 0
    /\ result = <<>>
    /\ produced = 0
    /\ trace = <<>>
    /\ fetched = NotFetched

GatewayInit == OrchIdle /\ LlmInit /\ ParserIdle /\ ValidatorsIdle

GatewayNext ==
    \/ \E arg \in ProviderArgs : GenerateResponse(arg)
    \/ \E http \in HttpOutcomes : CallPrimary(http)
    \/ SkipPrimary
    \/ \E http \in HttpOutcomes : CallFallback(http)
    \/ NoFallback

GatewaySpec == GatewayInit /\ [][GatewayNext]_vars

\* ------------------------------------------------ claims on the gateway
LlmDone == llm_pc \in {"returned", "raised"}

Succeeded(k) == ~ calls[k].raised

\* C11: when the target provider raises (an HTTP status error, a network
\* error or a timeout alike) and the registered, distinct fallback provider
\* succeeds, generate_response returns the fallback's text and raises nothing.
C11_FallbackAnswers ==
    ( /\ LlmDone
      /\ Len(calls) >= 1
      /\ calls[1].provider = provider_name
      /\ calls[1].raised
      /\ fallback_provider # provider_name
      /\ fallback_provider \in providers )
    => /\ Len(calls) = 2
       /\ calls[2].provider = fallback_provider
       /\ Succeeded(2) => /\ llm_pc = "returned"
                          /\ ~ llm_out.raised
                          /\ llm_out.text = calls[2].text

\* the target timed out and the fallback's text came back
C11_Witness ==
    /\ llm_pc = "returned"
    /\ Len(calls) = 2
    /\ calls[1].http.kind = "timeout"
    /\ llm_out.text = "gemini text"

\* C12: generate_response raises the one all-providers-failed error exactly
\* when no provider it tried returned; it raises no other error and never
\* raises when a provider it tried returned.
C12_AllProvidersFailed ==
    LlmDone =>
       /\ (llm_pc = "raised") <=> (\A k \in 1..Len(calls) : calls[k].raised)
       /\ llm_pc = "raised" => llm_out = AllProvidersFailed
       /\ llm_pc = "returned" =>
             /\ Succeeded(Len(calls))
             /\ llm_out = Return(calls[Len(calls)].text)

\* target and fallback both failed
C12_Witness ==
    /\ llm_pc = "raised"
    /\ Len(calls) = 2
    /\ calls[2].http.kind = "network_error"

\* C13: the target is the provider argument if given, else the default; the
\* fallback is tried only after the target failed or was not registered, and
\* only if its name differs from the target's; after a successful target no
\* fallback is called, and no provider is called twice.
C13_TargetThenFallback ==
    /\ llm_pc # "idle" =>
          provider_name = (IF provider = NoProvider THEN default_provider ELSE provider)
    /\ Len(calls) <= 2
    /\ \A k \in 1..Len(calls) :
          /\ calls[k].provider \in providers
          /\ calls[k].provider # provider_name =>
                /\ calls[k].provider = fallback_provider
                /\ k = Len(calls)
                /\ \/ provider_name \notin providers /\ k = 1
                   \/ k = 2 /\ calls[1].provider = provider_name /\ calls[1].raised
          /\ calls[k].provider = provider_name => k = 1
          /\ (calls[k].provider = provider_name /\ Succeeded(k)) => Len(calls) = 1
    /\ \A j, k \in 1..Len(calls) : calls[j].provider = calls[k].provider => j = k

\* the target answered although a distinct fallback was registered
C13_Witness ==
    /\ llm_pc = "returned"
    /\ Len(calls) = 1
    /\ calls[1].provider = provider_name
    /\ provider # NoProvider
    /\ FallbackEligible

\* the body a provider accepts
AcceptedShapes(name) ==
    IF name = "groq" THEN {"openai", "openai_empty_text"} ELSE {"gemini"}

\* C14: after a successful HTTP call, a body that is not the provider's
\* accepted shape gives the empty string and no error; the accepted shape
\* gives the text it holds.
C14_UnexpectedEnvelopeIsEmpty ==
    \A k \in 1..Len(calls) :
       calls[k].http.kind = "ok" =>
          /\ ~ calls[k].raised
          /\ calls[k].http.body \notin AcceptedShapes(calls[k].provider)
                => calls[k].text = ""
          /\ calls[k].http.body = "openai" /\ calls[k].provider = "groq"
                => calls[k].text = "openai text"
          /\ calls[k].http.body = "gemini" /\ calls[k].provider = "gemini"
                => calls[k].text = "gemini text"

\* ======================================================================
\* The AI-response parsers: TechnicalAgent._parse_ai_response,
\* FormattingAgent._parse_ai_response, DiagramAgent._parse_vision_findings
\* ======================================================================

\* the longest response, in lines
MaxLines == 4

ParserNames == {"technical", "formatting", "diagram"}

\* A response is the sequence of its lines. A line is described by what the
\* parsers' regular expressions and string tests can see of it:
\*   kind   bracket     "[Token] - rest"
\*          plain       "Token - rest"
\*          suggestion  "Suggestion: rest"
\*          text        prose that starts with no "word -"
\*          sep         "---"
\*          blank       ""
\*          marker      "FINDINGS:"
\*   token  the severity word as written (group 1 of the header patterns)
\*   colon  whether rest is "location: description"
\*   len    the number of characters of the line
Line(kind, token, colon, len) ==
    [kind |-> kind, token |-> token, colon |-> colon, len |-> len]

HeaderError     == Line("bracket", "ERROR", TRUE, 30)     \* [ERROR] - Section 2: torque missing
HeaderCritical  == Line("bracket", "Critical", TRUE, 30)  \* [Critical] - Step 4: wrong order
HeaderNoColon   == Line("bracket", "info", FALSE, 24)     \* [info] - check the valve
HeaderShort     == Line("bracket", "E", TRUE, 9)          \* [E] - a:b
HeaderPlain     == Line("plain", "Info", TRUE, 28)        \* Info - Page 3: unit missing
SuggestionLine  == Line("suggestion", "", FALSE, 26)      \* Suggestion: add the value
TextLine        == Line("text", "", FALSE, 32)            \* The document looks fine overall.
SepLine         == Line("sep", "", FALSE, 3)              \* ---
BlankLine       == Line("blank", "", FALSE, 0)
MarkerLine      == Line("marker", "", FALSE, 9)           \* FINDINGS:

Lines == { HeaderError, HeaderCritical, HeaderNoColon, HeaderShort,
           HeaderPlain, SuggestionLine, TextLine, SepLine, BlankLine,
           MarkerLine }

\* str.lower() on the severity words of the lines above
Lower(token) ==
    CASE token = "ERROR"    -> "error"
      [] token = "Critical" -> "critical"
      [] token = "Info"     -> "info"
      [] token = "E"        -> "e"
      [] OTHER              -> token

\* the severity kept as parsed
ValidateNothing(severity) == severity

\* "if severity not in ['error', 'warning', 'info']: severity = 'warning'"
ValidateSeverity(severity) ==
    IF severity \in Severities THEN severity ELSE "warning"

\* response.split("FINDINGS:")[1] when the marker is present, else the whole
\* response: the first and last line of the findings section
FindingsSection(r) ==
    LET markers == {i \in 1..Len(r) : r[i].kind = "marker"}
    IN  IF markers = {} THEN <<1, Len(r)>>
        ELSE LET first == CHOOSE i \in markers : \A j \in markers : i <= j
                 later == {i \in markers : i > first}
             IN  <<first + 1,
                   IF later = {} THEN Len(r)
                   ELSE (CHOOSE i \in later : \A j \in later : i <= j) - 1>>

\* the first line after a run of blank lines that starts at line i
RECURSIVE AfterBlanks(_, _, _)
AfterBlanks(r, i, hi) ==
    IF i <= hi /\ r[i].kind = "blank" THEN AfterBlanks(r, i + 1, hi) ELSE i

\* re.split(r'---+|\n\n\n+', findings_section): the blocks of lines i..hi, each
\* a sequence of line numbers; cur is the block being collected
RECURSIVE SplitBlocks(_, _, _, _, _)
SplitBlocks(r, i, hi, cur, acc) ==
    IF i > hi THEN Append(acc, cur)
    ELSE IF r[i].kind = "sep"
         THEN SplitBlocks(r, i + 1, hi, <<>>, Append(acc, cur))
    ELSE IF r[i].kind = "blank" /\ i + 1 <= hi /\ r[i + 1].kind = "blank"
         THEN SplitBlocks(r, AfterBlanks(r, i, hi), hi, <<>>, Append(acc, cur))
    ELSE SplitBlocks(r, i + 1, hi, Append(cur, i), acc)

\* raw_finding.strip(): the block without its leading and trailing blank lines
RECURSIVE StripBlock(_, _)
StripBlock(r, block) ==
    IF block = <<>> THEN block
    ELSE IF r[Head(block)].kind = "blank" THEN StripBlock(r, Tail(block))
    ELSE IF r[block[Len(block)]].kind = "blank"
         THEN StripBlock(r, SubSeq(block, 1, Len(block) - 1))
    ELSE block

\* len(raw_finding): the characters of the lines and the newlines between them
RECURSIVE BlockLen(_, _)
BlockLen(r, block) ==
    IF block = <<>> THEN 0
    ELSE IF Len(block) = 1 THEN r[block[1]].len
    ELSE r[Head(block)].len + 1 + BlockLen(r, Tail(block))

\* no suggestion (None)
NoSuggestion == 0

\* the finding a parser creates; src is the line whose text it came from and
\* suggestion the line its suggestion came from
ParsedFinding(severity, category, location, description, src, suggestion) ==
    [ severity |-> severity, category |-> category, location |-> location,
      description |-> description, src |-> src, suggestion |-> suggestion ]

\* "for line in lines[1:]: if line.strip().lower().startswith('suggestion:'):
\*  ...; break": the first suggestion line after the block's first line
FirstSuggestion(r, block) ==
    LET at == {k \in 2..Len(block) : r[block[k]].kind = "suggestion"}
    IN  IF at = {} THEN NoSuggestion
        ELSE block[CHOOSE k \in at : \A j \in at : k <= j]

\* the patterns r'\[(\w+)\]\s*-\s*(.+)' and r'(\w+)\s*-\s*(.+)' of
\* TechnicalAgent, r'\[?(\w+)\]?\s*-\s*(.+)' of FormattingAgent
MatchesBlockHeader(line) == line.kind \in {"bracket", "plain"}

\* the pattern r'\[(\w+)\]\s*-\s*([^:]+):\s*(.+)' of DiagramAgent
MatchesVisionHeader(line) == line.kind = "bracket" /\ line.colon

\* the finding built from a matching first line of a block
HeaderFinding(r, block, category) ==
    LET main_line == r[block[1]]
    IN  ParsedFinding(ValidateSeverity(Lower(main_line.token)), category,
                      IF main_line.colon THEN "before colon" ELSE "Document",
                      IF main_line.colon THEN "after colon" ELSE "rest of line",
                      block[1], FirstSuggestion(r, block))

\* the finding TechnicalAgent builds from a block with no clear format
DefaultFinding(r, block, category) ==
    ParsedFinding(ValidateSeverity("warning"), category, "Document",
                  "whole block", block[1], FirstSuggestion(r, block))

\* a block whose first line matches no pattern gives no finding
UnmatchedDropped(r, block, category) == <<>>

\* TechnicalAgent._parse_single_finding on a block whose first line matches
\* no pattern
UnmatchedTechnical(r, block, category) == << DefaultFinding(r, block, category) >>

\* FormattingAgent._parse_single_ai_finding on a block whose first line
\* matches no pattern: return None
UnmatchedFormatting(r, block, category) == <<>>

\* _parse_single_finding / _parse_single_ai_finding: no finding (<<>>) or one
ParseSingleFinding(r, block, name) ==
    IF block = <<>> \/ BlockLen(r, block) < 10 THEN <<>>
    ELSE IF MatchesBlockHeader(r[block[1]])
         THEN << HeaderFinding(r, block, name) >>
    ELSE IF name = "technical" THEN UnmatchedTechnical(r, block, name)
    ELSE UnmatchedFormatting(r, block, name)

\* the loop over raw_findings
RECURSIVE ParseBlocks(_, _, _)
ParseBlocks(r, blocks, name) ==
    IF blocks = <<>> THEN <<>>
    ELSE ParseSingleFinding(r, StripBlock(r, Head(blocks)), name)
            \o ParseBlocks(r, Tail(blocks), name)

\* the findings of the lines lo..hi of the response
ParseSection(r, lo, hi, name) ==
    ParseBlocks(r, SplitBlocks(r, lo, hi, <<>>, <<>>), name)

\* TechnicalAgent._parse_ai_response, FormattingAgent._parse_ai_response
ParseAiResponse(r, name) ==
    LET section == FindingsSection(r)
    IN  ParseSection(r, section[1], section[2], name)

\* "if current_finding: findings.append(self.create_finding(...))";
\* current is <<>> (None) or holds the pending finding
FlushPending(findings, current) == findings \o current

\* DiagramAgent._parse_vision_findings: the loop over the lines from line i
RECURSIVE ParseVisionLines(_, _, _, _)
ParseVisionLines(r, i, current, findings) ==
    IF i > Len(r) THEN FlushPending(findings, current)
    ELSE IF MatchesVisionHeader(r[i])
         THEN ParseVisionLines(r, i + 1,
                << ParsedFinding(ValidateSeverity(Lower(r[i].token)), "diagram",
                                 "diagram_ref - before colon", "after colon",
                                 i, NoSuggestion) >>,
                FlushPending(findings, current))
    ELSE IF r[i].kind = "suggestion" /\ current # <<>>
         THEN ParseVisionLines(r, i + 1,
                << [current[1] EXCEPT !.suggestion = i] >>, findings)
    ELSE ParseVisionLines(r, i + 1, current, findings)

ParseVisionFindings(r) == ParseVisionLines(r, 1, <<>>, <<>>)

\* ----------------------------------------------------------- the actions
\* any response of at most MaxLines lines, not yet parsed
ParserInit ==
    /\ response \in SeqsUpTo(Lines, MaxLines)
    /\ parser = "none"
    /\ parsed = <<>>

ParseTechnical ==
    /\ parser = "none"
    /\ parser' = "technical"
    /\ parsed' = ParseAiResponse(response, "technical")
    /\ UNCHANGED response
    /\ UNCHANGED notParser

ParseFormatting ==
    /\ parser = "none"
    /\ parser' = "formatting"
    /\ parsed' = ParseAiResponse(response, "formatting")
    /\ UNCHANGED response
    /\ UNCHANGED notParser

ParseDiagram ==
    /\ parser = "none"
    /\ parser' = "diagram"
    /\ parsed' = ParseVisionFindings(response)
    /\ UNCHANGED response
    /\ UNCHANGED notParser

\* the orchestrator and the gateway are at rest while a response is parsed
ParserSpecInit == OrchIdle /\ LlmDefault /\ ParserInit /\ ValidatorsIdle

ParserNext == ParseTechnical \/ ParseFormatting \/ ParseDiagram

ParserSpec == ParserSpecInit /\ [][ParserNext]_vars

\* ------------------------------------------------- claims on the parsers
\* the lines the findings came from, in the order of the findings
Srcs(findings) == [k \in 1..Len(findings) |-> findings[k].src]

\* the line numbers lo..hi that satisfy Test, in input order
LinesWhere(r, lo, hi, Test(_)) ==
    IF lo > hi THEN <<>>
    ELSE SelectSeq([k \in 1..(hi - lo + 1) |-> lo + k - 1],
                   LAMBDA i : Test(r[i]))

\* line i starts a block of the findings section lo..hi: it is not blank, and
\* before it comes the start of the section, a "---" line, or two or more
\* blank lines, with nothing but blank lines in between
StartsBlock(r, lo, hi, i) ==
    /\ i \in lo..hi
    /\ r[i].kind \notin {"blank", "sep"}
    /\ LET before == {j \in lo..(i - 1) : r[j].kind # "blank"}
       IN  \/ before = {}
           \/ LET last == CHOOSE j \in before : \A k \in before : k <= j
              IN  r[last].kind = "sep" \/ i - last > 2

\* the header pattern of the parser that ran
MatchesOwnHeader(line) ==
    IF parser = "diagram" THEN MatchesVisionHeader(line)
    ELSE MatchesBlockHeader(line)

\* the findings that came from a line matching the parser's header pattern
FromHeader(findings) ==
    SelectSeq(findings, LAMBDA f : MatchesOwnHeader(response[f.src]))

\* C15: the parser gives one Finding for each line of the parsed text that
\* matches its header pattern, in input order; in particular two adjacent
\* header lines give two Findings.
C15_OneFindingPerHeaderLine ==
    parser # "none" =>
       LET section == IF parser = "diagram" THEN <<1, Len(response)>>
                      ELSE FindingsSection(response)
       IN  Srcs(FromHeader(parsed)) =
              LinesWhere(response, section[1], section[2], MatchesOwnHeader)

\* the lines that are the FINDINGS: marker
Markers(r) == {i \in 1..Len(r) : r[i].kind = "marker"}

\* C16: when the response holds the FINDINGS: marker, the block parsers
\* discard everything up to and including the (first) marker and parse all
\* the text that follows it.
C16_AllTextAfterMarker ==
    (parser \in {"technical", "formatting"} /\ Markers(response) # {}) =>
       LET first == CHOOSE i \in Markers(response) :
                       \A j \in Markers(response) : i <= j
       IN  parsed = ParseSection(response, first + 1, Len(response), parser)

\* C17: every Finding a parser gives has a severity in {error, warning, info},
\* whatever severity word the response used.
C17_SeverityNormalised ==
    \A k \in 1..Len(parsed) : parsed[k].severity \in Severities

\* a header with a severity word outside the three gave a "warning" Finding,
\* and an upper-case ERROR gave an "error" Finding
C17_Witness ==
    /\ parser # "none"
    /\ \E k \in 1..Len(parsed) :
          /\ response[parsed[k].src] = HeaderCritical
          /\ parsed[k].severity = "warning"
    /\ \E k \in 1..Len(parsed) :
          /\ response[parsed[k].src] = HeaderError
          /\ parsed[k].severity = "error"

\* the finding is the one TechnicalAgent gives for a block with no clear format
IsDefaultFinding(f) ==
    /\ f.severity = "warning"
    /\ f.location = "Document"
    /\ f.description = "whole block"

LimbBits == 12

Base == 2 ^ LimbBits

RECURSIVE LimbsOf(_)
LimbsOf(n) == IF n = 0 THEN <<>> ELSE <<n % Base>> \o LimbsOf(n \div Base)

RECURSIVE Trim(_)
Trim(b) ==
    IF b = <<>> THEN b
    ELSE IF b[Len(b)] = 0 THEN Trim(SubSeq(b, 1, Len(b) - 1))
    ELSE b

Limb(b, i) == IF i \in 1..Len(b) THEN b[i] ELSE 0

Longer(a, b) == IF Len(a) > Len(b) THEN Len(a) ELSE Len(b)

\* the limbs of a sequence of numbers that may exceed the base or be
\* negative, from position i up (the whole is not negative)
RECURSIVE Carry(_, _, _)
Carry(b, i, carry) ==
    IF i > Len(b) THEN (IF carry > 0 THEN LimbsOf(carry) ELSE <<>>)
    ELSE LET t == b[i] + carry
         IN  <<t % Base>> \o Carry(b, i + 1, (t - (t % Base)) \div Base)

AddLimbs(a, b) ==
    Trim(Carry([i \in 1..Longer(a, b) |-> Limb(a, i) + Limb(b, i)], 1, 0))

\* a - b for a >= b
SubLimbs(a, b) ==
    Trim(Carry([i \in 1..Longer(a, b) |-> Limb(a, i) - Limb(b, i)], 1, 0))

\* -1, 0, 1 as a < b, a = b, a > b
RECURSIVE CmpFrom(_, _, _)
CmpFrom(a, b, i) ==
    IF i = 0 THEN 0
    ELSE IF a[i] > b[i] THEN 1
    ELSE IF a[i] < b[i] THEN -1
    ELSE CmpFrom(a, b, i - 1)

CmpLimbs(a, b) ==
    IF Len(a) > Len(b) THEN 1
    ELSE IF Len(a) < Len(b) THEN -1
    ELSE CmpFrom(a, b, Len(a))

\* the sum of a[i] * b[k + 1 - i] from i up
RECURSIVE SumProducts(_, _, _, _)
SumProducts(a, b, k, i) ==
    IF i > Len(a) THEN 0
    ELSE Limb(a, i) * Limb(b, k + 1 - i) + SumProducts(a, b, k, i + 1)

MulLimbs(a, b) ==
    IF a = <<>> \/ b = <<>> THEN <<>>
    ELSE Trim(Carry([k \in 1..(Len(a) + Len(b) - 1) |-> SumProducts(a, b, k, 1)],
                    1, 0))

\* the number of bits of a number below the base
RECURSIVE SmallBitLen(_)
SmallBitLen(n) == IF n = 0 THEN 0 ELSE 1 + SmallBitLen(n \div 2)

BitLen(b) ==
    IF b = <<>> THEN 0 ELSE (Len(b) - 1) * LimbBits + SmallBitLen(b[Len(b)])

\* b * 2^k
ShiftLeft(b, k) ==
    LET ls == k \div LimbBits
        bs == k % LimbBits
    IN  Trim([i \in 1..(Len(b) + ls + 1) |->
                ((Limb(b, i - ls) * 2 ^ bs) % Base)
                + (Limb(b, i - ls - 1) \div 2 ^ (LimbBits - bs))])

\* b \div 2^k
ShiftRight(b, k) ==
    LET ls == k \div LimbBits
        bs == k % LimbBits
    IN  Trim([i \in 1..Len(b) |->
                (Limb(b, i + ls) \div 2 ^ bs)
                + (Limb(b, i + ls + 1) % 2 ^ bs) * 2 ^ (LimbBits - bs)])

\* bit k of b, counted from 0
BitAt(b, k) == (Limb(b, k \div LimbBits + 1) \div 2 ^ (k % LimbBits)) % 2

\* the bits of b below bit k are all 0
LowBitsZero(b, k) ==
    /\ \A i \in 1..Len(b) : i <= k \div LimbBits => b[i] = 0
    /\ Limb(b, k \div LimbBits + 1) % 2 ^ (k % LimbBits) = 0

\* the precision of binary64, in bits
MantissaBits == 53

\* A float is neg, man, exp for (-1)^neg * man * 2^exp with man a natural
\* number of at most MantissaBits bits.
Float(neg, man, exp) == [neg |-> neg, man |-> man, exp |-> exp]

\* the float nearest to man * 2^exp (plus a non-zero rest below the lowest
\* bit when sticky), ties to the even mantissa
RoundToFloat(neg, man, exp, sticky) ==
    IF BitLen(man) <= MantissaBits THEN Float(neg, man, exp)
    ELSE LET drop   == BitLen(man) - MantissaBits
             kept   == ShiftRight(man, drop)
             guard  == BitAt(man, drop - 1)
             rest   == sticky \/ ~ LowBitsZero(man, drop - 1)
             up     == guard = 1 /\ (rest \/ BitAt(kept, 0) = 1)
             m      == IF up THEN AddLimbs(kept, <<1>>) ELSE kept
         IN  IF BitLen(m) > MantissaBits
             THEN Float(neg, ShiftRight(m, 1), exp + drop + 1)
             ELSE Float(neg, m, exp + drop)

\* the limbs computed below the point before rounding: enough to leave more
\* than MantissaBits significant bits for every value of 10^-4 and above
ExtraLimbs == 7

ExtraBits == ExtraLimbs * LimbBits

\* the first k limbs of rem/den (rem < den) after the point, highest first,
\* followed by the remainder that is left
RECURSIVE FractionLimbs(_, _, _)
FractionLimbs(rem, den, k) ==
    IF k = 0 THEN <<rem>>
    ELSE <<(rem * Base) \div den>>
            \o FractionLimbs((rem * Base) % den, den, k - 1)

Reverse(b) == [i \in 1..Len(b) |-> b[Len(b) + 1 - i]]

Pow10(d) == 10 ^ d

\* A decimal numeral is n, d for the text of n / 10^d ("38.6" is 386, 1).
Decimal(n, d) == [n |-> n, d |-> d]

\* float(text): the float nearest to the decimal numeral
FloatOf(dec) ==
    LET den   == Pow10(dec.d)
        abs   == IF dec.n < 0 THEN -dec.n ELSE dec.n
        frac  == FractionLimbs(abs % den, den, ExtraLimbs)
        limbs == Reverse(SubSeq(frac, 1, ExtraLimbs)) \o LimbsOf(abs \div den)
    IN  RoundToFloat(dec.n < 0, Trim(limbs), -ExtraBits,
                     frac[ExtraLimbs + 1] # 0)

\* x * y
MulFloat(x, y) ==
    RoundToFloat(x.neg # y.neg, MulLimbs(x.man, y.man), x.exp + y.exp, FALSE)

\* x + y
AddFloat(x, y) ==
    LET e == IF x.exp < y.exp THEN x.exp ELSE y.exp
        a == ShiftLeft(x.man, x.exp - e)
        b == ShiftLeft(y.man, y.exp - e)
    IN  IF x.neg = y.neg THEN RoundToFloat(x.neg, AddLimbs(a, b), e, FALSE)
        ELSE IF CmpLimbs(a, b) >= 0
             THEN RoundToFloat(x.neg, SubLimbs(a, b), e, FALSE)
        ELSE RoundToFloat(y.neg, SubLimbs(b, a), e, FALSE)

NegFloat(x) == Float(~ x.neg, x.man, x.exp)

\* x - y
SubFloat(x, y) == AddFloat(x, NegFloat(y))

\* abs(x)
AbsFloat(x) == Float(FALSE, x.man, x.exp)

\* the quotient limbs of the number with the limbs b (highest first) divided
\* by the small number q, highest first, followed by the remainder
RECURSIVE DivideLimbs(_, _, _)
DivideLimbs(b, q, rem) ==
    IF b = <<>> THEN <<rem>>
    ELSE LET t == rem * Base + Head(b)
         IN  <<t \div q>> \o DivideLimbs(Tail(b), q, t % q)

\* x / q for a small whole number q > 0
DivFloat(x, q) ==
    LET quot == DivideLimbs(Reverse(ShiftLeft(x.man, ExtraBits)), q, 0)
        n    == Len(quot) - 1
    IN  RoundToFloat(x.neg, Trim(Reverse(SubSeq(quot, 1, n))),
                     x.exp - ExtraBits, quot[n + 1] # 0)

\* x > y
GreaterFloat(x, y) ==
    LET e == IF x.exp < y.exp THEN x.exp ELSE y.exp
        a == ShiftLeft(x.man, x.exp - e)
        b == ShiftLeft(y.man, y.exp - e)
    IN  IF x.neg /\ ~ y.neg THEN FALSE
        ELSE IF ~ x.neg /\ y.neg THEN a # <<>> \/ b # <<>>
        ELSE IF x.neg THEN CmpLimbs(a, b) < 0
        ELSE CmpLimbs(a, b) > 0

\* ======================================================================
\* FormattingAgent._validate_conversions
\* ======================================================================

NoFactor == Decimal(0, 0)

\* a ConversionRule: the units, the factor (None for the custom temperature
\* formula) and the tolerance, as the decimal numerals of the source
ConversionRule(from_unit, to_unit, conversion_factor, tolerance) ==
    [ from_unit |-> from_unit, to_unit |-> to_unit,
      conversion_factor |-> conversion_factor, tolerance |-> tolerance ]

\* _setup_conversion_rules
conversion_rules ==
    << ConversionRule("F", "C", NoFactor, Decimal(5, 1)),
       ConversionRule("inch", "mm", Decimal(254, 1), Decimal(5, 1)),
       ConversionRule("ft", "m", Decimal(3048, 4), Decimal(1, 2)) >>

WholeFloat(n) == Float(FALSE, LimbsOf(n), 0)

\* expected_c = (value1 - 32) * 5 / 9
ExpectedCelsius(value1) ==
    DivFloat(MulFloat(SubFloat(value1, WholeFloat(32)), WholeFloat(5)), 9)

\* expected_value = value1 * rule.conversion_factor
ExpectedLinear(value1, rule) == MulFloat(value1, FloatOf(rule.conversion_factor))

\* abs(value2 - expected) > rule.tolerance
Deviates(value2, expected, rule) ==
    GreaterFloat(AbsFloat(SubFloat(value2, expected)), FloatOf(rule.tolerance))

\* the finding of a wrong conversion
ConversionError(match) ==
    [ severity |-> "error", category |-> "conversion", match |-> match ]

\* the body of the loop over the matches of a rule: match is the rule with
\* group(1) and group(2) of the regular expression's match
ValidateMatch(match) ==
    LET rule   == conversion_rules[match.rule]
        value1 == FloatOf(match.value1)
        value2 == FloatOf(match.value2)
    IN  IF rule.from_unit = "F" /\ rule.to_unit = "C"
        THEN IF Deviates(value2, ExpectedCelsius(value1), rule)
             THEN << ConversionError(match) >> ELSE <<>>
        ELSE IF rule.conversion_factor # NoFactor
        THEN IF Deviates(value2, ExpectedLinear(value1, rule), rule)
             THEN << ConversionError(match) >> ELSE <<>>
        ELSE <<>>

\* the match of a rule's pattern in the text: the rule (its place in
\* conversion_rules), group(1) and group(2)
Match(rule, value1, value2) ==
    [rule |-> rule, value1 |-> value1, value2 |-> value2]

\* re.finditer(rule.pattern, text): the text holds one conversion statement
Matches(text, rule) == IF text.rule = rule THEN << text >> ELSE <<>>

\* the loop over the matches of one rule
RECURSIVE ValidateMatches(_)
ValidateMatches(matches) ==
    IF matches = <<>> THEN <<>>
    ELSE ValidateMatch(Head(matches)) \o ValidateMatches(Tail(matches))

\* _validate_conversions: the loop over the rules from rule i
RECURSIVE ValidateRules(_, _)
ValidateRules(text, i) ==
    IF i > Len(conversion_rules) THEN <<>>
    ELSE ValidateMatches(Matches(text, i)) \o ValidateRules(text, i + 1)

\* the largest stated value, in tenths
MaxStated == 400

\* the source values of the statements: written with or without a decimal
FahrenheitValues ==
    { Decimal(-40, 0), Decimal(32, 0), Decimal(41, 0), Decimal(100, 0),
      Decimal(329, 1) }

InchValues == { Decimal(5, 1), Decimal(1, 0), Decimal(15, 1), Decimal(3, 0) }

FootValues == { Decimal(1, 0), Decimal(10, 0), Decimal(125, 1) }

\* the statements a text can hold; only the temperature pattern admits a sign
ConversionTexts ==
    { Match(1, v, Decimal(n, 1)) : v \in FahrenheitValues,
                                   n \in (-MaxStated)..MaxStated }
    \cup { Match(2, v, Decimal(n, 1)) : v \in InchValues, n \in 0..MaxStated }
    \cup { Match(3, v, Decimal(n, 1)) : v \in FootValues, n \in 0..MaxStated }

ConvInit ==
    /\ conv_match \in ConversionTexts
    /\ conv_findings = <<>>
    /\ conv_pc = "text"

ValidateConversions ==
    /\ conv_pc = "text"
    /\ conv_findings' = ValidateRules(conv_match, 1)
    /\ conv_pc' = "validated"
    /\ UNCHANGED conv_match
    /\ UNCHANGED notConv

ConvSpecInit == OrchIdle /\ LlmDefault /\ ParserIdle /\ FracIdle /\ ReviewIdle /\ ConvInit

ConvNext == ValidateConversions

ConvSpec == ConvSpecInit /\ [][ConvNext]_vars

\* ------------------------------------------------------ claims: conversions
\* 10^k times the value of a decimal numeral with at most k decimals
Scaled(dec, k) == dec.n * Pow10(k - dec.d)

\* the stated value differs from the expected one by more than the tolerance,
\* in exact arithmetic (every value in units of 10^-5)
ExactlyDeviates(match) ==
    LET rule   == conversion_rules[match.rule]
        stated == Scaled(match.value2, 5)
        tol    == Scaled(rule.tolerance, 5)
        diff9  == IF match.rule = 1
                  THEN 9 * stated - 5 * (Scaled(match.value1, 5) - Scaled(Decimal(32, 0), 5))
                  ELSE 9 * (stated - match.value1.n * rule.conversion_factor.n
                                     * Pow10(5 - match.value1.d
                                               - rule.conversion_factor.d))
    IN  (IF diff9 < 0 THEN -diff9 ELSE diff9) > 9 * tol

\* C19: for the matched pair, _validate_conversions gives exactly one error
\* Finding if the stated value differs from the expected value by more than
\* the tolerance of the rule, and no Finding otherwise.
C19_ErrorIffBeyondTolerance ==
    conv_pc = "validated" =>
       IF ExactlyDeviates(conv_match)
       THEN Len(conv_findings) = 1 /\ conv_findings[1].severity = "error"
       ELSE conv_findings = <<>>

\* ======================================================================
\* FormattingAgent._decimal_to_fraction and _fraction_to_decimal
\* ======================================================================

\* the whole number with the limbs b
RECURSIVE LimbsToInt(_)
LimbsToInt(b) == IF b = <<>> THEN 0 ELSE Head(b) + Base * LimbsToInt(Tail(b))

\* int(x) for x >= 0
IntOf(x) ==
    LimbsToInt(IF x.exp < 0 THEN ShiftRight(x.man, -x.exp)
               ELSE ShiftLeft(x.man, x.exp))

\* "N/D"
Fraction(num, den) == [num |-> num, den |-> den]

\* the dict of _decimal_to_fraction, in its order
fractions ==
    << <<Decimal(625, 4), Fraction(1, 16)>>,  <<Decimal(125, 3), Fraction(1, 8)>>,
       <<Decimal(1875, 4), Fraction(3, 16)>>, <<Decimal(25, 2), Fraction(1, 4)>>,
       <<Decimal(3125, 4), Fraction(5, 16)>>, <<Decimal(375, 3), Fraction(3, 8)>>,
       <<Decimal(4375, 4), Fraction(7, 16)>>, <<Decimal(5, 1), Fraction(1, 2)>>,
       <<Decimal(5625, 4), Fraction(9, 16)>>, <<Decimal(625, 3), Fraction(5, 8)>>,
       <<Decimal(6875, 4), Fraction(11, 16)>>, <<Decimal(75, 2), Fraction(3, 4)>>,
       <<Decimal(8125, 4), Fraction(13, 16)>>, <<Decimal(875, 3), Fraction(7, 8)>>,
       <<Decimal(9375, 4), Fraction(15, 16)>> >>

\* the loop "for frac_decimal, frac_text in fractions.items()" from entry i:
\* closest is <<>> (None) or holds the fraction, min_diff <<>> is inf
RECURSIVE ClosestFraction(_, _, _, _)
ClosestFraction(fractional_part, i, closest, min_diff) ==
    IF i > Len(fractions) THEN closest
    ELSE LET diff == AbsFloat(SubFloat(fractional_part, FloatOf(fractions[i][1])))
         IN  IF min_diff = <<>> \/ GreaterFloat(min_diff[1], diff)
             THEN ClosestFraction(fractional_part, i + 1,
                                  << fractions[i][2] >>, << diff >>)
             ELSE ClosestFraction(fractional_part, i + 1, closest, min_diff)

\* the texts _decimal_to_fraction returns: "W-N/D", "N/D", "W"
MixedText(whole, frac) == [form |-> "W-N/D", whole |-> whole, frac |-> frac]

SimpleText(frac) == [form |-> "N/D", whole |-> 0, frac |-> frac]

WholeText(whole) == [form |-> "W", whole |-> whole, frac |-> Fraction(0, 1)]

\* the threshold for rounding
Threshold == Decimal(3, 2)

\* _decimal_to_fraction
DecimalToFractionText(decimal_value_) ==
    LET whole_part      == IntOf(decimal_value_)
        fractional_part == SubFloat(decimal_value_, WholeFloat(whole_part))
        closest         == ClosestFraction(fractional_part, 1, <<>>, <<>>)
        above           == GreaterFloat(fractional_part, FloatOf(Threshold))
    IN  IF whole_part > 0 /\ closest # <<>> /\ above
        THEN MixedText(whole_part, closest[1])
        ELSE IF closest # <<>> /\ above THEN SimpleText(closest[1])
        ELSE WholeText(whole_part)

\* _fraction_to_decimal on a text without '-' and without '/':
\* whole = 0, fraction_value = 0
WholeNumberRead(text) == WholeFloat(0)

\* _fraction_to_decimal
FractionTextToDecimal(text) ==
    IF text.form = "W-N/D"
    THEN AddFloat(WholeFloat(text.whole),
                  DivFloat(WholeFloat(text.frac.num), text.frac.den))
    ELSE IF text.form = "N/D"
    THEN AddFloat(WholeFloat(0),
                  DivFloat(WholeFloat(text.frac.num), text.frac.den))
    ELSE WholeNumberRead(text)

\* the largest whole part of a measurement
MaxWhole == 2

\* the measurements: the sixteenths, written with four decimals, and every
\* value with two decimals
DecimalValues ==
    { Decimal(w * 10000 + 625 * k, 4) : w \in 0..MaxWhole, k \in 0..15 }
    \cup { Decimal(n, 2) : n \in 0..(100 * MaxWhole + 99) }

FracInit ==
    /\ decimal_value \in DecimalValues
    /\ fraction_text = <<>>
    /\ round_trip = <<>>
    /\ frac_pc = "decimal"

DecimalToFraction ==
    /\ frac_pc = "decimal"
    /\ fraction_text' = DecimalToFractionText(FloatOf(decimal_value))
    /\ frac_pc' = "fraction"
    /\ UNCHANGED << decimal_value, round_trip >>
    /\ UNCHANGED notFrac

FractionToDecimal ==
    /\ frac_pc = "fraction"
    /\ round_trip' = FractionTextToDecimal(fraction_text)
    /\ frac_pc' = "back"
    /\ UNCHANGED << decimal_value, fraction_text >>
    /\ UNCHANGED notFrac

FracSpecInit == OrchIdle /\ LlmDefault /\ ParserIdle /\ ConvIdle /\ ReviewIdle /\ FracInit

FracNext == DecimalToFraction \/ FractionToDecimal

FracSpec == FracSpecInit /\ [][FracNext]_vars

\* -------------------------------------------------------- claims: fractions
\* the decimal value is one of the sixteenths k/16, with or without whole part
IsSixteenth(dec) == Scaled(dec, 4) % 625 = 0

\* 32 times the value of a float that is a multiple of 1/32
ThirtySeconds(x) ==
    LimbsToInt(IF x.exp + 5 < 0 THEN ShiftRight(x.man, -(x.exp + 5))
               ELSE ShiftLeft(x.man, x.exp + 5))

\* C20: for each sixteenth x = W + k/16, k in 0..15, with or without whole
\* part W, fraction_to_decimal(decimal_to_fraction(x)) is within 1/32 of x,
\* which puts it in the same 1/16 bucket.
C20_RoundTripSameBucket ==
    (frac_pc = "back" /\ IsSixteenth(decimal_value)) =>
       LET back == ThirtySeconds(round_trip)
           x    == (Scaled(decimal_value, 4) \div 625) * 2
       IN  back - x \in -1..1

\* ======================================================================
\* Further claims on AgentManager.start_review
\* ======================================================================

\* C23: whenever start_review returns status 'partial', the summary holds the
\* note that some agents failed to complete their review.
C23_PartialHasNote ==
    (pc = "returned" /\ result.status = "partial") => result.summary.note


\* the findings of a list that carry the row id of the insert of event k
HoldsRow(list, k) ==
    \E j \in 1..Len(list) : list[j].uid = trace[k].uid /\ list[j].id = trace[k].id

\* C24: after start_review returns, every finding written to the store during
\* the call also appears in ReviewResult.findings and in agent_results: a
\* storage failure part-way leaves no persisted finding that the result omits.
C24_PersistedInResult ==
    Returned =>
        \A k \in Events("add_agent_finding") :
            /\ HoldsRow(result.findings, k)
            /\ \E e \in Range(result.agent_results) : HoldsRow(e.val, k)


\* the sum of the lengths of the lists of a dict
RECURSIVE TotalLen(_)
TotalLen(results) ==
    IF results = <<>> THEN 0
    ELSE Len(Head(results).val) + TotalLen(Tail(results))

\* C25: for every request list, one with duplicate names included, the
\* length of ReviewResult.findings equals the sum of the lengths of the
\* lists in agent_results.
C25_FindingsMatchAgentResults ==
    Returned => Len(result.findings) = TotalLen(result.agent_results)


\* C26: when no requested agent is registered (an empty request list, an
\* empty registry, or only unknown names), start_review returns status
\* 'failed' with empty findings and empty agent_results, not 'completed'.
C26_NothingRegisteredFails ==
    (Returned /\ RegisteredIterations = {}) =>
        /\ result.status = "failed"
        /\ result.findings = <<>>
        /\ result.agent_results = <<>>

\* a review of unknown names only has returned
C26_Witness ==
    /\ Returned
    /\ RegisteredIterations = {}
    /\ agents_to_use # <<>>
    /\ Events("skipped") # {}


\* the stored fields of a finding, by which a finding read back from the
\* store is the same as one start_review returned
Stored(f) ==
    [ id |-> f.id, session_id |-> f.session_id, agent_name |-> f.agent_name,
      severity |-> f.severity, confidence |-> f.confidence ]

StoredList(list) == [j \in 1..Len(list) |-> Stored(list[j])]

StoredDict(results) ==
    [j \in 1..Len(results) |-> [key |-> results[j].key, val |-> StoredList(results[j].val)]]

\* get_review_by_session answered for the session of a review that returned
\* with at least one finding
FetchedAfterFindings ==
    /\ Returned
    /\ result.findings # <<>>
    /\ fetched.called
    /\ fetched.session_id = session_id

\* C29: after start_review for session S returns with at least one finding,
\* get_review_by_session(S) returns a ReviewResult with the same findings,
\* the same agent_results keys and grouping, and the same status.
C29_FetchedEqualsReturned ==
    FetchedAfterFindings =>
        /\ fetched.review # <<>>
        /\ StoredList(fetched.review[1].findings) = StoredList(result.findings)
        /\ StoredDict(fetched.review[1].agent_results) = StoredDict(result.agent_results)
        /\ fetched.review[1].status = result.status


\* ======================================================================
\* Further claims on LLMManager.generate_response
\* ======================================================================

\* the target provider was called and returned the empty string
TargetReturnedEmpty ==
    /\ LlmDone
    /\ Len(calls) >= 1
    /\ calls[1].provider = provider_name
    /\ Succeeded(1)
    /\ calls[1].text = ""

\* C28: an empty string returned by the target provider counts as success:
\* generate_response returns it to the caller and does not try the fallback.
C28_EmptyTextIsSuccess ==
    TargetReturnedEmpty =>
        /\ llm_pc = "returned"
        /\ llm_out = Return("")
        /\ Len(calls) = 1

\* the target returned "" while a distinct fallback was registered
C28_Witness == TargetReturnedEmpty /\ FallbackEligible


\* ======================================================================
\* BaseReviewAgent.execute_review of one agent: review() of TechnicalAgent,
\* FormattingAgent and DiagramAgent with their rule-based validators
\* ======================================================================

\* the longest document, in lines
MaxPhrases == 2

\* A document is a list of lines, each holding one phrase: a measurement
\* "<number> <unit>" or a sentence.  A number is written as a decimal, as a
\* mixed fraction (1-1/2), as a simple fraction (3/4) or as a whole number;
\* lead is the count of digits before the first separator, decimals the
\* count of digits after the point.
Measure(form, lead, decimals, unit) ==
    [ kind |-> "measure", form |-> form, lead |-> lead, decimals |-> decimals,
      unit |-> unit ]

InchDecimal  == Measure("decimal", 1, 1, "inch")        \* 1.5 inch
InchMixed    == Measure("mixed", 1, 0, "inch")          \* 1-1/2 inch
MmSimple     == Measure("simple", 1, 0, "mm")           \* 3/4 mm
MmPrecise    == Measure("decimal", 2, 2, "mm")          \* 25.40 mm
MmDecimal    == Measure("decimal", 2, 1, "mm")          \* 25.4 mm
Fahrenheit   == Measure("whole", 2, 0, "fahrenheit")    \* 72 °F
Celsius      == Measure("whole", 2, 0, "celsius")       \* 22 °C
ConnectPower ==                                         \* connect power.
    [ kind |-> "sentence", form |-> "none", lead |-> 0, decimals |-> 0,
      unit |-> "none" ]

Phrases == { InchDecimal, InchMixed, MmSimple, MmPrecise, MmDecimal,
             Fahrenheit, Celsius, ConnectPower }

\* the terms of the validators' word lists that a line holds
Terms(line) ==
    IF line.kind = "sentence" THEN {"connect", "power", "connect power"} ELSE {}

\* any(term in text for term in terms)
HasAny(text, terms) == \E i \in 1..Len(text) : Terms(text[i]) \cap terms # {}

\* the lines of the text that satisfy Test, as line numbers in text order:
\* re.finditer of a pattern that matches within a line
Finditer(text, Test(_)) ==
    SelectSeq([i \in 1..Len(text) |-> i], LAMBDA i : Test(text[i]))

RECURSIVE Sum(_)
Sum(counts) == IF counts = <<>> THEN 0 ELSE Head(counts) + Sum(Tail(counts))

\* the orders in which a set of strings can be iterated: the order follows
\* the hashes of the strings, which differ from one interpreter to the next
SetOrders(S) == { order \in [1..Cardinality(S) -> S] : Range(order) = S }

\* create_finding of a validator: issue names the kind of finding, subject
\* the line of the match (0: the document), detail the values formatted into
\* the description
RuleFinding(validator, issue, severity, category, confidence, subject, detail) ==
    [ validator |-> validator, issue |-> issue, severity |-> severity,
      category |-> category, confidence |-> confidence, subject |-> subject,
      detail |-> detail ]

\* ------------------------------------------------ FormattingAgent
InchUnits == {"inch"}            \* (?:inch|in|")
SmallMetricUnits == {"mm", "cm"} \* (?:mm|cm|millimeter|centimeter)

\* self.problematic_patterns, in dict order
problematic_patterns ==
    << "imperial_decimal_instead_of_fraction", "metric_fraction_instead_of_decimal",
       "metric_excessive_precision", "measurements_without_units" >>

\* the pattern of an entry of problematic_patterns on a line; no line of
\* Phrases names a dimension followed by a bare number
ProblematicMatch(name, line) ==
    CASE name = "imperial_decimal_instead_of_fraction" ->
            line.form = "decimal" /\ line.unit \in InchUnits
      [] name = "metric_fraction_instead_of_decimal" ->
            line.form \in {"mixed", "simple"} /\ line.unit \in SmallMetricUnits
      [] name = "metric_excessive_precision" ->
            line.form = "decimal" /\ line.decimals >= 2 /\ line.unit \in SmallMetricUnits
      [] OTHER -> FALSE

\* _is_valid_exception on the text of a match: of its patterns only the
\* model number \w+\d+-\d+ can match a number followed by a unit of length
IsValidException(line) == line.form = "mixed" /\ line.lead >= 2

\* line 542: no entry is named "mixed_decimal_fraction"
FormatSeverity(name) == IF name = "mixed_decimal_fraction" THEN "warning" ELSE "error"

\* _check_format_patterns: the loop over the matches of one pattern
FormatPatternFindings(text, name) ==
    LET matches == Finditer(text, LAMBDA line : ProblematicMatch(name, line))
        kept == SelectSeq(matches, LAMBDA i : ~ IsValidException(text[i]))
    IN  [k \in 1..Len(kept) |->
            RuleFinding("_check_format_patterns", name, FormatSeverity(name),
                        "formatting", 9, kept[k], <<>>)]

\* _check_format_patterns: the loop over the patterns from entry n on
RECURSIVE CheckFormatPatternsFrom(_, _)
CheckFormatPatternsFrom(text, n) ==
    IF n > Len(problematic_patterns) THEN <<>>
    ELSE FormatPatternFindings(text, problematic_patterns[n])
            \o CheckFormatPatternsFrom(text, n + 1)

CheckFormatPatterns(text) == CheckFormatPatternsFrom(text, 1)

\* len(re.findall(self.unit_patterns[unit_type], text)): the matches a line
\* adds.  A fraction before mm counts, its denominator being a number before
\* the unit; a whole number or a simple fraction before inch does not.
UnitCount(unit_type, line) ==
    CASE unit_type = "imperial_inch" ->
            IF line.form \in {"decimal", "mixed"} /\ line.unit \in InchUnits THEN 1 ELSE 0
      [] unit_type = "metric_mm" ->
            IF line.kind = "measure" /\ line.unit = "mm" THEN 1 ELSE 0
      [] unit_type = "metric_cm" ->
            IF line.kind = "measure" /\ line.unit = "cm" THEN 1 ELSE 0
      [] unit_type = "imperial_ft" ->
            IF line.form \in {"decimal", "mixed"} /\ line.unit = "ft" THEN 1 ELSE 0
      [] unit_type = "metric_m" ->
            IF line.kind = "measure" /\ line.unit = "m" THEN 1 ELSE 0
      [] unit_type = "temperature_f" ->
            IF line.kind = "measure" /\ line.unit = "fahrenheit" THEN 1 ELSE 0
      [] unit_type = "temperature_c" ->
            IF line.kind = "measure" /\ line.unit = "celsius" THEN 1 ELSE 0
      [] OTHER -> 0

unit_counts(text, unit_type) ==
    Sum([i \in 1..Len(text) |-> UnitCount(unit_type, text[i])])

\* the metric values written in brackets; no line of Phrases has one
MetricInBrackets(text) == 0

\* _check_unit_consistency
CheckUnitConsistency(text) ==
    LET imperial_count == unit_counts(text, "imperial_inch") + unit_counts(text, "imperial_ft")
        metric_count == unit_counts(text, "metric_mm") + unit_counts(text, "metric_cm")
                          + unit_counts(text, "metric_m")
        standalone_metric == metric_count - MetricInBrackets(text)
        temp_f_count == unit_counts(text, "temperature_f")
        temp_c_count == unit_counts(text, "temperature_c")
    IN  (IF imperial_count > 0 /\ metric_count > 0 /\ standalone_metric > 0
         THEN << RuleFinding("_check_unit_consistency", "mixed_unit_systems", "warning",
                             "consistency", 8, 0, <<imperial_count, metric_count>>) >>
         ELSE <<>>)
        \o
        (IF temp_f_count > 0 /\ temp_c_count > 0
         THEN << RuleFinding("_check_unit_consistency", "mixed_temperature_units", "info",
                             "consistency", 7, 0, <<temp_f_count, temp_c_count>>) >>
         ELSE <<>>)

\* _validate_conversions: a conversion statement holds a value in the one
\* unit and a value in the other on one line; no line of Phrases does
ConversionStatements(text) == <<>>

\* _check_company_standards: a quote after a number, a temperature written
\* with a bare F or C; no line of Phrases has either
CheckCompanyStandards(text) == <<>>

\* _validate_imperial_metric_standards: the three loops over the matches;
\* no line of Phrases pairs an imperial value with a bracketed metric one
ValidateImperialMetricStandards(text) ==
    LET imperial_decimal ==
            Finditer(text, LAMBDA line : line.form = "decimal" /\ line.unit \in InchUnits)
        metric_fraction ==
            Finditer(text, LAMBDA line : /\ line.form \in {"mixed", "simple"}
                                         /\ line.unit \in SmallMetricUnits)
        precision ==
            Finditer(text, LAMBDA line : /\ line.form = "decimal"
                                         /\ line.decimals >= 2
                                         /\ line.unit \in SmallMetricUnits)
    IN  [k \in 1..Len(imperial_decimal) |->
            RuleFinding("_validate_imperial_metric_standards", "imperial_decimal_notation",
                        "warning", "standards", 9, imperial_decimal[k], <<>>)]
        \o
        [k \in 1..Len(metric_fraction) |->
            RuleFinding("_validate_imperial_metric_standards", "metric_fraction_notation",
                        "warning", "standards", 9, metric_fraction[k], <<>>)]
        \o
        [k \in 1..Len(precision) |->
            RuleFinding("_validate_imperial_metric_standards", "metric_excessive_precision",
                        "info", "precision", 8, precision[k], <<>>)]

\* the four patterns of _analyze_fraction_usage on a number: the types
\* _classify_fraction_type gives the matches of a line, in pattern order.
\* 1-1/2 matches as 1-1/2, as 1/2 and as 1-1.
FractionTypes(line) ==
    CASE line.form = "mixed"   -> << "mixed_fraction", "simple_fraction", "dash_notation" >>
      [] line.form = "simple"  -> << "simple_fraction" >>
      [] line.form = "decimal" -> << "decimal" >>
      [] OTHER                 -> << >>

\* _looks_like_measurement: a measurement word within 20 characters of the
\* match; the unit of the line itself is one
LooksLikeMeasurement(line) == line.unit \in InchUnits \cup SmallMetricUnits

\* the types of the entries of all_fractions
RECURSIVE AllFractions(_)
AllFractions(text) ==
    IF text = <<>> THEN <<>>
    ELSE (IF LooksLikeMeasurement(Head(text)) THEN FractionTypes(Head(text)) ELSE <<>>)
            \o AllFractions(Tail(text))

\* _analyze_fraction_usage; order is the order in which ', '.join iterates
\* the set types_used
AnalyzeFractionUsage(text, order) ==
    LET all_fractions == AllFractions(text)
        types_used == Range(all_fractions)
    IN  IF Len(all_fractions) > 1 /\ Cardinality(types_used) > 1
        THEN << RuleFinding("_analyze_fraction_usage", "mixed_fraction_notation", "info",
                            "consistency", 7, 0, order) >>
        ELSE <<>>

\* the orders ', '.join(types_used) can take on a text
TypesUsedOrders(text) == SetOrders(Range(AllFractions(text)))

\* FormattingAgent._perform_rule_based_review
FormattingRuleBasedReview(text, order) ==
    ValidateMatches(ConversionStatements(text))
        \o CheckFormatPatterns(text)
        \o CheckUnitConsistency(text)
        \o CheckCompanyStandards(text)
        \o ValidateImperialMetricStandards(text)
        \o AnalyzeFractionUsage(text, order)

\* ------------------------------------------------ TechnicalAgent
\* len(re.findall(measurement_pattern, line)): every group of digits of a
\* number matches, a point joining two groups into one
NumberGroups(line) ==
    CASE line.form = "mixed"   -> 3
      [] line.form = "simple"  -> 2
      [] line.form \in {"decimal", "whole"} -> 1
      [] OTHER                 -> 0

\* the points of a line: text.split('.') cuts there
Points(line) == IF line.form = "decimal" \/ line.kind = "sentence" THEN 1 ELSE 0

\* the index in text.split('.') of the part that line i begins in
PartOf(text, i) == Sum([j \in 1..(i - 1) |-> Points(text[j])])

CheckSafetyWarnings(text) ==
    LET has_electrical ==
            HasAny(text, {"wire", "wiring", "electrical", "power", "voltage", "connect power"})
        has_safety ==
            HasAny(text, {"danger", "warning", "caution", "safety", "turn off power",
                          "disconnect power"})
    IN  IF has_electrical /\ ~ has_safety
        THEN << RuleFinding("_check_safety_warnings", "no_safety_warning", "warning",
                            "safety", 9, 0, <<>>) >>
        ELSE <<>>

CheckToolRequirements(text) ==
    LET has_actions ==
            HasAny(text, {"drill", "screw", "cut", "strip", "connect", "mount", "install"})
        has_tools ==
            HasAny(text, {"screwdriver", "drill bit", "wire stripper", "multimeter", "level"})
    IN  IF has_actions /\ ~ has_tools
        THEN << RuleFinding("_check_tool_requirements", "no_tools", "warning",
                            "tools", 7, 0, <<>>) >>
        ELSE <<>>

CheckMeasurementIssues(text) ==
    LET matches == Sum([i \in 1..Len(text) |-> NumberGroups(text[i])])
    IN  IF matches > 3
        THEN << RuleFinding("_check_measurement_issues", "no_units", "warning",
                            "measurements", 6, 0, <<>>) >>
        ELSE <<>>

\* power_early: 'connect power' or 'plug in' in one of text.split('.')[:3]
CheckSequenceIssues(text) ==
    LET power_early ==
            \E i \in 1..Len(text) :
                /\ Terms(text[i]) \cap {"connect power", "plug in"} # {}
                /\ PartOf(text, i) < 3
    IN  IF power_early
        THEN << RuleFinding("_check_sequence_issues", "power_early", "error",
                            "sequence", 8, 0, <<>>) >>
        ELSE <<>>

\* TechnicalAgent._perform_rule_based_review
TechnicalRuleBasedReview(text) ==
    CheckSafetyWarnings(text)
        \o CheckToolRequirements(text)
        \o CheckMeasurementIssues(text)
        \o CheckSequenceIssues(text)

\* ------------------------------------------------ DiagramAgent
\* _analyze_diagram_text_references: the loop over the references; each was
\* cut out of the text, so `ref not in text` is false for every one
MissingInstructions(text) == <<>>

\* _analyze_diagram_text_references
AnalyzeDiagramTextReferences(text) ==
    (IF /\ HasAny(text, {"wire", "connect"})
        /\ ~ HasAny(text, {"diagram", "figure"})
     THEN << RuleFinding("_analyze_diagram_text_references", "no_diagram_reference",
                         "warning", "diagram", 7, 0, <<>>) >>
     ELSE <<>>)
    \o MissingInstructions(text)

\* ------------------------------------------------ review()
ReviewAgents == {"technical", "formatting", "diagram"}

\* the agents whose review() asks the LLM when llm_manager is set;
\* DiagramAgent asks only for the images of the context, which
\* ReviewContext does not have
AiAgents == {"technical", "formatting"}

\* the texts generate_response returns to the agents
Responses == { << TextLine >>, << HeaderError, SuggestionLine >> }

\* what LLMManager.generate_response does for the agent
GatewayOutcomes ==
    { [raised |-> TRUE, response |-> <<>>] } \cup
    { [raised |-> FALSE, response |-> r] : r \in Responses }

\* create_finding of _parse_single_finding / _parse_single_ai_finding
AiFinding(p) ==
    RuleFinding("_parse_ai_response", "ai", p.severity, p.category, 8, p.src, <<>>)

\* _perform_ai_review, _perform_ai_formatting_review: the try block, and
\* the except clause that leaves findings empty
PerformAiReviewOf(name, outcome) ==
    IF outcome.raised THEN <<>>
    ELSE LET parsed_findings == ParseAiResponse(outcome.response, name)
         IN  [k \in 1..Len(parsed_findings) |-> AiFinding(parsed_findings[k])]

\* _perform_rule_based_review of TechnicalAgent and FormattingAgent, the
\* text analysis of DiagramAgent.review
RuleBasedReview(name, text, order) ==
    CASE name = "technical"  -> TechnicalRuleBasedReview(text)
      [] name = "formatting" -> FormattingRuleBasedReview(text, order)
      [] OTHER               -> AnalyzeDiagramTextReferences(text)

\* ------------------------------------------------ the actions
\* any agent on any document of at most MaxPhrases lines
ReviewInit ==
    /\ review_agent \in ReviewAgents
    /\ document_text \in SeqsUpTo(Phrases, MaxPhrases)
    /\ llm_manager \in BOOLEAN
    /\ review_pc = "ai"
    /\ gateway_failed = FALSE
    /\ ai_findings = <<>>
    /\ rule_findings = <<>>
    /\ review_out = NoReview
    /\ filtered_findings = <<>>
    /\ second_run = FALSE
    /\ rerun_findings = <<>>

\* the AI review with an except clause that re-raises: review() raises and
\* execute_review returns []
PerformAiReviewRaises(outcome) ==
    /\ review_pc = "ai"
    /\ llm_manager
    /\ review_agent \in AiAgents
    /\ gateway_failed' = outcome.raised
    /\ ai_findings' = PerformAiReviewOf(review_agent, outcome)
    /\ IF outcome.raised
       THEN /\ review_out' = [raised |-> TRUE, findings |-> <<>>]
            /\ filtered_findings' = ExecuteReview(ConfidenceThreshold(review_agent),
                                                  review_out').findings
            /\ review_pc' = "done"
       ELSE /\ review_pc' = "rules"
            /\ UNCHANGED << review_out, filtered_findings >>
    /\ UNCHANGED << review_agent, document_text, llm_manager, rule_findings,
                    second_run, rerun_findings >>
    /\ UNCHANGED notReview

\* review(), `if self.llm_manager:` taken: the AI review
PerformAiReview(outcome) ==
    /\ review_pc = "ai"
    /\ llm_manager
    /\ review_agent \in AiAgents
    /\ gateway_failed' = outcome.raised
    /\ ai_findings' = PerformAiReviewOf(review_agent, outcome)
    /\ review_pc' = "rules"
    /\ UNCHANGED << review_agent, document_text, llm_manager, rule_findings, review_out,
                    filtered_findings, second_run, rerun_findings >>
    /\ UNCHANGED notReview

\* review(), no LLM to ask
SkipAiReview ==
    /\ review_pc = "ai"
    /\ ~ (llm_manager /\ review_agent \in AiAgents)
    /\ gateway_failed' = FALSE
    /\ ai_findings' = <<>>
    /\ review_pc' = "rules"
    /\ UNCHANGED << review_agent, document_text, llm_manager, rule_findings, review_out,
                    filtered_findings, second_run, rerun_findings >>
    /\ UNCHANGED notReview

\* the rule-based review, the return of review() and the filter of
\* execute_review
PerformRuleBasedReview ==
    /\ review_pc = "rules"
    /\ \E order \in TypesUsedOrders(document_text) :
          rule_findings' = RuleBasedReview(review_agent, document_text, order)
    /\ review_out' = [raised |-> FALSE, findings |-> ai_findings \o rule_findings']
    /\ filtered_findings' = ExecuteReview(ConfidenceThreshold(review_agent),
                                          review_out').findings
    /\ review_pc' = "done"
    /\ UNCHANGED << review_agent, document_text, llm_manager, gateway_failed, ai_findings,
                    second_run, rerun_findings >>
    /\ UNCHANGED notReview

\* _perform_rule_based_review is called once more with the same context
RuleBasedReviewAgain ==
    /\ review_pc = "done"
    /\ ~ second_run
    /\ second_run' = TRUE
    /\ \E order \in TypesUsedOrders(document_text) :
          rerun_findings' = RuleBasedReview(review_agent, document_text, order)
    /\ UNCHANGED << review_agent, document_text, llm_manager, review_pc, gateway_failed,
                    ai_findings, rule_findings, review_out, filtered_findings >>
    /\ UNCHANGED notReview

ReviewSpecInit == OrchIdle /\ LlmDefault /\ ParserIdle /\ ConvIdle /\ FracIdle /\ ReviewInit

ReviewNext ==
    \/ \E outcome \in GatewayOutcomes : PerformAiReview(outcome)
    \/ SkipAiReview
    \/ PerformRuleBasedReview
    \/ RuleBasedReviewAgain

ReviewSpec == ReviewSpecInit /\ [][ReviewNext]_vars

\* ------------------------------------------------ claims on the reviews
ReviewDone == review_pc = "done"

\* the kinds of finding of the two validators that look at the notation of
\* a measurement
ImperialDecimalIssues ==
    {"imperial_decimal_instead_of_fraction", "imperial_decimal_notation"}

MetricFractionIssues ==
    {"metric_fraction_instead_of_decimal", "metric_fraction_notation"}

\* C21: every Finding the FormattingAgent's rule-based review emits for an
\* imperial measurement written as a decimal or for a metric measurement
\* written as a fraction has severity 'warning', and every Finding it emits
\* for a metric value with more than one decimal place has severity 'info'.
C21_NotationSeverities ==
    (ReviewDone /\ review_agent = "formatting") =>
        \A k \in 1..Len(rule_findings) :
            /\ rule_findings[k].issue \in ImperialDecimalIssues \cup MetricFractionIssues
                  => rule_findings[k].severity = "warning"
            /\ rule_findings[k].issue = "metric_excessive_precision"
                  => rule_findings[k].severity = "info"

\* C22: the rule validators are deterministic: two runs of FormattingAgent's
\* rule-based review on the same text return the same list of Findings, in
\* order, field values and description strings.
C22_RuleReviewDeterministic ==
    (ReviewDone /\ review_agent = "formatting" /\ second_run) =>
        rerun_findings = rule_findings

\* C27: when every LLM provider fails, TechnicalAgent.review and
\* FormattingAgent.review do not raise: they return exactly the findings of
\* their rule-based review, and execute_review returns those of them that
\* pass the threshold.
C27_RuleFindingsWhenGatewayFails ==
    (ReviewDone /\ review_agent \in AiAgents /\ gateway_failed) =>
        /\ ~ review_out.raised
        /\ review_out.findings = rule_findings
        /\ filtered_findings =
              SelectSeq(rule_findings,
                        LAMBDA f : f.confidence >= ConfidenceThreshold(review_agent))

\* the gateway failed, the rule-based review found something and a part of
\* it passed the threshold
C27_Witness ==
    /\ ReviewDone
    /\ review_agent \in AiAgents
    /\ gateway_failed
    /\ filtered_findings # <<>>
    /\ Len(filtered_findings) < Len(rule_findings)

\* C30: every confidence an agent's validators and parsers give a Finding is
\* at least the agent's confidence_threshold, so that execute_review removes
\* no kind of finding each time it occurs.
C30_ConfidencesReachThreshold ==
    ReviewDone =>
        \A k \in 1..Len(review_out.findings) :
            review_out.findings[k].confidence >= ConfidenceThreshold(review_agent)

====
